---- MODULE Spec2Model ----
(***************************************************************************)
(* A model of procore-docs-to-openapi:                                     *)
(*   - the path-tracking visit() helper and the traversal of               *)
(*     ProcoreApiDocToOpenApiTransformer (src/index.js),                   *)
(*   - the command-line entry point procoreDocsToOpenapiMain with the      *)
(*     fix-up pipeline of ProcoreFixupsTransformer,                        *)
(*   - combineOpenapi (src/combine.js),                                    *)
(*   - makeEndpointFilter (src/make-filter.js).                            *)
(* Each part has its own specification over its own variables; the         *)
(* variables of the other parts stay at their initial values.              *)
(***************************************************************************)
EXTENDS Integers, Sequences, FiniteSets, TLC

VARIABLES
    \* ---- traversal (src/index.js) ----
    transformPath,  \* transformer.transformPath: property names being visited
    frames,         \* active visit() calls, outermost first
    rootPos,        \* position in transformApiDoc: 0 not running, 1 before its
                    \* visit() call, 2 after it
    err,            \* the Error object being thrown (or last thrown), or None
    lastVisit,      \* the visit() call that ended last: path before and after
    unwinding,      \* TRUE while an exception propagates
    \* ---- command line (cli.js, fixups.js) ----
    cliPc,          \* position in procoreDocsToOpenapiMain
    cliArgs,        \* what command.parse(args) found
    filenames,      \* command.args, "-" added when empty
    reads,          \* per input: "pending", "parsed" or "failed"
    allPromise,     \* the Promise.all over the reads
    constructed,    \* new ProcoreApiDocToOpenApiTransformer() was called
    transformCalls, \* number of transformApiDoc calls begun
    openapiDocs,    \* results of the transformApiDoc calls that returned
    combined,       \* the combined document, or None
    openApi,        \* the document inside ProcoreFixupsTransformer
    fixLog,         \* fix-up passes run: pass, its input, its output
    failure,        \* the error caught by main's try block, or None
    stdout,         \* writes to options.stdout
    stderr,         \* writes to options.stderr
    exitCode,       \* the value main returned, or None
    warnCalls,      \* the calls of transformer.warn: input, path, values
    \* ---- combineOpenapi (combine.js) ----
    cDocs,          \* the elements of openapiDocs iterated over so far
    firstVer,       \* openapi of the first document, or None
    tagsByName,     \* the Map of tags, in insertion order
    combinedPaths,  \* path string -> Path Item
    cResult,        \* how the call ended: returned a value or threw
    \* ---- makeEndpointFilter (make-filter.js) ----
    filterArgs,     \* minSupportLevel and includeBetaPrograms
    endpointFilter, \* the closure returned: minIndex, includeBetaPrograms
    filterCall,      \* the last call of the filter: endpoint and outcome
    \* ---- transformEndpoints (src/index.js) ----
    endpoints,      \* the elements of the endpoints array iterated over so far
    pathsObj,       \* paths: path string -> method -> Operation
    endpointsResult, \* how the call ended: returned paths or threw
    \* ---- transformBodyParams ----
    bodyParams,     \* the elements of params iterated over so far
    schemas,        \* the schema objects created, by identity (1 is the root)
    schemaForDepth, \* the identities of the most recent schema of each depth
    bodyLast,       \* the last iteration: what it found and what it did
    entrySchemas,   \* for each entry tried, the schema visit() returned
    bodyResult,      \* how the call ended: returned or threw
    \* ---- transformParams, as called by transformEndpoint ----
    paramsIn,       \* the call running: "path", then "query"; "done" after both
    pathParams,     \* the elements of path_params iterated over so far
    queryParams,    \* the elements of query_params iterated over so far
    oasParams,      \* the Parameter Objects of the running call
    prevSchema,     \* the schema of the previous element, or None
    paramSchemas,   \* the schema objects created, by identity
    parameters,     \* the Parameter Objects returned so far (path, then query)
    paramsResult,    \* how transformEndpoint's parameters ended
    \* ---- transformResponses, transformSchemaProperties ----
    keyedCall,      \* which of the two methods is running
    responses,      \* the elements of responses iterated over so far
    responseByStatus,   \* status -> Response Object
    properties,     \* the elements of properties iterated over so far
    propertiesByName,   \* field -> schema
    keyedWarnings,  \* the indexes of the elements which were warned about
    keyedResult,     \* how the call ended: returned or threw
    \* ---- transformApiDoc, transformVersions, transformVersion ----
    apiDocs,        \* the documents given to transformApiDoc, in call order
    apiCall,        \* the index in apiDocs of the current (or next) call
    versionPc,      \* where the current call of transformVersion is
    docsUrl,        \* this[docsUrlSymbol]
    versionName,    \* this[versionNameSymbol]
    versionTools,   \* this[versionToolsSymbol]
    versionPending, \* the completion of the try block, kept through finally
    apiResults,     \* how each call of transformApiDoc ended
    versionWarnings, \* the calls which warned about the number of versions
    \* ---- applyToPath ----
    applyTransform, \* the transform argument
    applyObj,       \* the obj argument of the outermost call
    applyPath,      \* the propPath argument
    applyResult,     \* how the call ended, with its warnings and the
                    \* arguments transform was called with
    \* ---- the repair functions of DocBugsTransformer ----
    repairFunction, \* the function which applyToPath calls as transform
    repairNode,     \* the node it is called with
    repairResult,    \* how the call ended, with the number of warnings
    \* ---- FormatFromContextTransformer.transformSchemaWithContext ----
    formatSchema,   \* the schema argument
    formatName,     \* the name argument
    formatParameter,    \* the parameter argument, undefined for a property
    formatResults,   \* the return values of the first and second pass
    \* ---- DeprecatedTransformer.transformSchema ----
    deprecatedSchema,   \* the schema argument
    deprecatedPath,     \* this.transformPath during the call
    deprecatedResult,    \* the return value and the warnings
    \* ---- MultipartTransformer.transformRequestBody ----
    multipartBody,      \* the requestBody argument
    multipartResult,     \* the return value, the warnings, the argument after
    \* ---- ErrorResponseTransformer ----
    errorDocument,          \* the OpenAPI document
    errorResponsesResult,   \* what transformResponses left for its operation
    errorOpenApiResult,      \* what transformOpenApi left for the document
    \* ---- ProcoreOpenApi31To30Transformer ----
    downgradeDocument,      \* the openApi argument
    downgradeResult         \* the return value and the warnings

visitVars == <<transformPath, frames, rootPos, err, lastVisit, unwinding>>

cliVars == <<cliPc, cliArgs, filenames, reads, allPromise, constructed,
             transformCalls, openapiDocs, combined, openApi, fixLog, failure,
             stdout, stderr, exitCode, warnCalls>>

combineVars == <<cDocs, firstVer, tagsByName, combinedPaths, cResult>>

filterVars == <<filterArgs, endpointFilter, filterCall>>

endpointsVars == <<endpoints, pathsObj, endpointsResult>>

bodyVars ==
    <<bodyParams, schemas, schemaForDepth, bodyLast, entrySchemas,
      bodyResult>>

paramsVars == <<paramsIn, pathParams, queryParams, oasParams, prevSchema,
                paramSchemas, parameters, paramsResult>>

keyedVars == <<keyedCall, responses, responseByStatus, properties,
               propertiesByName, keyedWarnings, keyedResult>>

versionVars == <<apiDocs, apiCall, versionPc, docsUrl, versionName,
                 versionTools, versionPending, apiResults, versionWarnings>>

applyVars == <<applyTransform, applyObj, applyPath, applyResult>>

repairVars == <<repairFunction, repairNode, repairResult>>

formatVars == <<formatSchema, formatName, formatParameter, formatResults>>

deprecatedVars == <<deprecatedSchema, deprecatedPath, deprecatedResult>>

multipartVars == <<multipartBody, multipartResult>>

errorVars == <<errorDocument, errorResponsesResult, errorOpenApiResult>>

downgradeVars == <<downgradeDocument, downgradeResult>>

vars ==
    <<visitVars, cliVars, combineVars, filterVars,
      endpointsVars, bodyVars, paramsVars, keyedVars,
      versionVars, applyVars, repairVars, formatVars,
      deprecatedVars, multipartVars, errorVars, downgradeVars>>

visitOthers ==
    <<cliVars, combineVars, filterVars, endpointsVars,
      bodyVars, paramsVars, keyedVars, versionVars,
      applyVars, repairVars, formatVars, deprecatedVars,
      multipartVars, errorVars, downgradeVars>>

cliOthers ==
    <<visitVars, combineVars, filterVars, endpointsVars,
      bodyVars, paramsVars, keyedVars, versionVars,
      applyVars, repairVars, formatVars, deprecatedVars,
      multipartVars, errorVars, downgradeVars>>

combineOthers ==
    <<visitVars, cliVars, filterVars, endpointsVars,
      bodyVars, paramsVars, keyedVars, versionVars,
      applyVars, repairVars, formatVars, deprecatedVars,
      multipartVars, errorVars, downgradeVars>>

filterOthers ==
    <<visitVars, cliVars, combineVars, endpointsVars,
      bodyVars, paramsVars, keyedVars, versionVars,
      applyVars, repairVars, formatVars, deprecatedVars,
      multipartVars, errorVars, downgradeVars>>

endpointsOthers ==
    <<visitVars, cliVars, combineVars, filterVars,
      bodyVars, paramsVars, keyedVars, versionVars,
      applyVars, repairVars, formatVars, deprecatedVars,
      multipartVars, errorVars, downgradeVars>>

bodyOthers ==
    <<visitVars, cliVars, combineVars, filterVars,
      endpointsVars, paramsVars, keyedVars, versionVars,
      applyVars, repairVars, formatVars, deprecatedVars,
      multipartVars, errorVars, downgradeVars>>

paramsOthers ==
    <<visitVars, cliVars, combineVars, filterVars,
      endpointsVars, bodyVars, keyedVars, versionVars,
      applyVars, repairVars, formatVars, deprecatedVars,
      multipartVars, errorVars, downgradeVars>>

keyedOthers ==
    <<visitVars, cliVars, combineVars, filterVars,
      endpointsVars, bodyVars, paramsVars, versionVars,
      applyVars, repairVars, formatVars, deprecatedVars,
      multipartVars, errorVars, downgradeVars>>

versionOthers ==
    <<visitVars, cliVars, combineVars, filterVars,
      endpointsVars, bodyVars, paramsVars, keyedVars,
      applyVars, repairVars, formatVars, deprecatedVars,
      multipartVars, errorVars, downgradeVars>>

applyOthers ==
    <<visitVars, cliVars, combineVars, filterVars,
      endpointsVars, bodyVars, paramsVars, keyedVars,
      versionVars, repairVars, formatVars, deprecatedVars,
      multipartVars, errorVars, downgradeVars>>

repairOthers ==
    <<visitVars, cliVars, combineVars, filterVars,
      endpointsVars, bodyVars, paramsVars, keyedVars,
      versionVars, applyVars, formatVars, deprecatedVars,
      multipartVars, errorVars, downgradeVars>>

formatOthers ==
    <<visitVars, cliVars, combineVars, filterVars,
      endpointsVars, bodyVars, paramsVars, keyedVars,
      versionVars, applyVars, repairVars, deprecatedVars,
      multipartVars, errorVars, downgradeVars>>

deprecatedOthers ==
    <<visitVars, cliVars, combineVars, filterVars,
      endpointsVars, bodyVars, paramsVars, keyedVars,
      versionVars, applyVars, repairVars, formatVars,
      multipartVars, errorVars, downgradeVars>>

multipartOthers ==
    <<visitVars, cliVars, combineVars, filterVars,
      endpointsVars, bodyVars, paramsVars, keyedVars,
      versionVars, applyVars, repairVars, formatVars,
      deprecatedVars, errorVars, downgradeVars>>

errorOthers ==
    <<visitVars, cliVars, combineVars, filterVars,
      endpointsVars, bodyVars, paramsVars, keyedVars,
      versionVars, applyVars, repairVars, formatVars,
      deprecatedVars, multipartVars, downgradeVars>>

downgradeOthers ==
    <<visitVars, cliVars, combineVars, filterVars,
      endpointsVars, bodyVars, paramsVars, keyedVars,
      versionVars, applyVars, repairVars, formatVars,
      deprecatedVars, multipartVars, errorVars>>

\* an optional value is a sequence of no or one element
None == <<>>
Some(x) == <<x>>

----------------------------------------------------------------------------
(* Bounds *)

\* largest number of nested visit() calls explored
MaxDepth == 9
\* largest number of elements of any array of the vendor document
MaxItems == 2
\* largest number of file arguments
MaxFiles == 2
\* largest number of -v options and of -q options
MaxFlags == 1
\* largest number of warnings one transformApiDoc call emits
MaxWarnings == 1
\* largest number of documents given to combineOpenapi
MaxDocs == 2
\* largest number of beta programs of one endpoint
MaxPrograms == 2
\* largest number of elements of an endpoints array
MaxEndpoints == 3
\* largest number of elements of a body_params array
MaxBodyParams == 3
\* largest indentation of a body param
MaxIndentation == 8
\* largest number of elements of a path_params or query_params array
MaxParams == 3
\* largest number of elements of a responses array
MaxResponses == 3
\* largest number of elements of a schema properties array
MaxProperties == 3
\* largest number of elements of a versions array
MaxVersions == 2
\* largest number of property names of a property path
MaxPathLength == 3
\* largest number of pieces of text of a description
MaxPieces == 2

----------------------------------------------------------------------------
(* Strings.  A string is a sequence of chunks; the chunks "~" and "/" are   *)
(* those characters, any other chunk is a run of other characters.          *)

Name(s) == <<s>>

RECURSIVE ReplaceChunk(_, _, _)
\* String.prototype.replace(/c/g, by): every chunk c is replaced by `by`
ReplaceChunk(str, c, by) ==
    IF str = <<>> THEN <<>>
    ELSE (IF Head(str) = c THEN by ELSE <<Head(str)>>)
         \o ReplaceChunk(Tail(str), c, by)

\* p.replace(/~/g, '~0').replace(/\//g, '~1')
EscapePointerSegment(p) ==
    ReplaceChunk(ReplaceChunk(p, "~", <<"~", "0">>), "/", <<"~", "1">>)

RECURSIVE JoinWithSlash(_)
\* Array.prototype.join('/')
JoinWithSlash(segs) ==
    IF segs = <<>> THEN <<>>
    ELSE IF Len(segs) = 1 THEN segs[1]
    ELSE segs[1] \o <<"/">> \o JoinWithSlash(Tail(segs))

\* '/' + propPath.map(escape).join('/')
toJsonPointer(propPath) ==
    <<"/">> \o JoinWithSlash([i \in 1..Len(propPath) |->
                                 EscapePointerSegment(propPath[i])])

----------------------------------------------------------------------------
(* The traversal of ProcoreApiDocToOpenApiTransformer.                      *)
(* The body of each transform method is a sequence of slots; a slot is one  *)
(* visit() call site.  kind:                                                *)
(*   "once"  the call is always made                                        *)
(*   "opt"   the call is made or not, depending on the node                 *)
(*   "loop"  the call is made for the elements 0, 1, ... of an array, the   *)
(*           property name being the index ("skip": some elements may be    *)
(*           passed over without a call)                                    *)
(*   "last"  the call is made once, for the index of the last element       *)

Slot(kind, calls) == [kind |-> kind, calls |-> calls]

Methods == {"transformApiDoc", "transformVersions", "transformVersion",
            "transformEndpoints", "transformEndpoint", "transformPathParams",
            "transformQueryParams", "transformBodyParams", "transformParam",
            "transformResponses", "transformResponse", "transformSchema",
            "transformSchemaProperties"}

MethodBody(m) ==
    CASE m = "transformApiDoc" ->
           <<Slot("once", {<<"versions", "transformVersions">>})>>
      [] m = "transformVersions" ->
           <<Slot("last", {<<"", "transformVersion">>})>>
      [] m = "transformVersion" ->
           <<Slot("once", {<<"endpoints", "transformEndpoints">>})>>
      [] m = "transformEndpoints" ->
           <<Slot("skip", {<<"", "transformEndpoint">>})>>
      [] m = "transformEndpoint" ->
           <<Slot("once", {<<"path_params", "transformPathParams">>}),
             Slot("once", {<<"query_params", "transformQueryParams">>}),
             Slot("opt", {<<"body_params", "transformBodyParams">>}),
             Slot("once", {<<"responses", "transformResponses">>})>>
      [] m \in {"transformPathParams", "transformQueryParams",
                "transformBodyParams"} ->
           <<Slot("loop", {<<"", "transformParam">>})>>
      [] m = "transformParam" -> <<>>
      [] m = "transformResponses" ->
           <<Slot("loop", {<<"", "transformResponse">>})>>
      [] m = "transformResponse" ->
           <<Slot("once", {<<"schema", "transformSchema">>})>>
      [] m = "transformSchema" ->
           <<Slot("opt", {<<"items", "transformSchema">>,
                          <<"properties", "transformSchemaProperties">>})>>
      [] m = "transformSchemaProperties" ->
           <<Slot("loop", {<<"", "transformSchema">>})>>

\* methods whose last statement is `return visit(...)` or a literal built
\* from it: nothing can throw once that call has returned
ReturnsVisitResult == {"transformApiDoc", "transformVersions",
                       "transformResponse"}

IsLoop(slot) == slot.kind \in {"loop", "skip"}

\* The calls the method m can make next when it is at slot pos and, in a
\* loop, at element iter: <<property name, method, pos, iter>>.
RECURSIVE NextCalls(_, _, _)
NextCalls(m, pos, iter) ==
    IF pos > Len(MethodBody(m)) THEN {}
    ELSE
      LET slot == MethodBody(m)[pos]
          here ==
            CASE slot.kind \in {"once", "opt"} ->
                   {<<Name(c[1]), c[2], pos, 0>> : c \in slot.calls}
              [] slot.kind = "loop" ->
                   {<<Name(ToString(iter)), c[2], pos, iter>> :
                      c \in {d \in slot.calls : iter < MaxItems}}
              [] slot.kind = "skip" ->
                   {<<Name(ToString(k)), c[2], pos, k>> :
                      c \in slot.calls, k \in iter..(MaxItems - 1)}
              [] slot.kind = "last" ->
                   \* String(versions.length - 1)
                   {<<Name(ToString(n - 1)), c[2], pos, 0>> :
                      c \in slot.calls, n \in 0..MaxItems}
      IN  here \cup (IF slot.kind = "once" THEN {}
                     ELSE IF slot.kind = "last" THEN {}
                     ELSE NextCalls(m, pos + 1, 0))

\* The method can run to its end from slot pos without another visit() call.
RECURSIVE CanFinish(_, _)
CanFinish(m, pos) ==
    IF pos > Len(MethodBody(m)) THEN TRUE
    ELSE IF MethodBody(m)[pos].kind \in {"opt", "loop", "skip"}
           THEN CanFinish(m, pos + 1)
           ELSE FALSE

\* Where the caller stands once the call it made at (pos, iter) is over.
AfterCall(m, pos, iter) ==
    IF IsLoop(MethodBody(m)[pos]) THEN <<pos, iter + 1>> ELSE <<pos + 1, 0>>

----------------------------------------------------------------------------
(* visit(transformer, method, propName, propValue)                          *)

\* transformer.transformPath.push(propName)
PushPath(path, propName) == Append(path, propName)

\* a visit() which would pop on return only
PopPathOnReturnOnly(path, handlingException) ==
    IF handlingException THEN path ELSE SubSeq(path, 1, Len(path) - 1)

\* finally { transformer.transformPath.pop() }: runs on return and on throw
PopPath(path, handlingException) == SubSeq(path, 1, Len(path) - 1)

\* a catch block which would decorate whatever error it is given
DecorateAlways(e, path) ==
    [e EXCEPT !.own = TRUE,
              !.transformPath = path,
              !.suffixes = Append(@, toJsonPointer(path))]

\* catch (err): the error is decorated unless it has an own transformPath
Decorate(e, path) ==
    IF ~e.own
      THEN [e EXCEPT !.own = TRUE,
                     !.transformPath = path,
                     !.suffixes = Append(@, toJsonPointer(path))]
      ELSE e

\* new Error(...): no own transformPath, the message as constructed
NewError(path) ==
    [own |-> FALSE, transformPath |-> <<>>, suffixes |-> <<>>,
     thrownAt |-> path, catches |-> 0]

CurMethod == IF frames = <<>> THEN "transformApiDoc"
             ELSE frames[Len(frames)].method
CurPos == IF frames = <<>> THEN rootPos ELSE frames[Len(frames)].pos
CurIter == IF frames = <<>> THEN 0 ELSE frames[Len(frames)].iter
\* versions[-1] is undefined: the method given it can only throw a TypeError
CurDefined == IF frames = <<>> THEN TRUE ELSE frames[Len(frames)].defined

\* the frames with the caller (the innermost one) moved to (pos, iter)
CallerAt(fs, pos, iter) ==
    IF fs = <<>> THEN fs
    ELSE [fs EXCEPT ![Len(fs)].pos = pos, ![Len(fs)].iter = iter]

VisitIdle ==
    /\ transformPath = <<>>
    /\ frames = <<>>
    /\ rootPos = 0
    /\ err = None
    /\ lastVisit = None
    /\ unwinding = FALSE

\* transformApiDoc(doc) is called on the transformer
BeginTransformApiDoc ==
    /\ rootPos = 0
    /\ rootPos' = 1
    /\ err' = None
    /\ lastVisit' = None
    /\ unwinding' = FALSE
    /\ UNCHANGED <<transformPath, frames>>
    /\ UNCHANGED visitOthers

\* the running method calls visit(this, method, propName, value):
\* the property name is pushed and the method is entered
VisitCall ==
    /\ rootPos = 1
    /\ ~unwinding
    /\ Len(frames) < MaxDepth
    /\ CurDefined
    /\ \E c \in NextCalls(CurMethod, CurPos, CurIter) :
         /\ transformPath' = PushPath(transformPath, c[1])
         /\ frames' = Append(CallerAt(frames, c[3], c[4]),
                             [method |-> c[2], prop |-> c[1],
                              defined |-> c[1] # Name("-1"),
                              pre |-> transformPath, pos |-> 1, iter |-> 0])
    /\ UNCHANGED <<rootPos, err, lastVisit, unwinding>>
    /\ UNCHANGED visitOthers

\* the method returns: visit() pops the property name in its finally block,
\* checks it (assert.strictEqual(popProp, propName)) and returns the value
VisitReturn ==
    /\ rootPos = 1
    /\ ~unwinding
    /\ frames # <<>>
    /\ CurDefined
    /\ CanFinish(CurMethod, CurPos)
    /\ UNCHANGED visitOthers
    /\ LET f == frames[Len(frames)]
           popProp == transformPath[Len(transformPath)]
           path == PopPath(transformPath, FALSE)
           callers == SubSeq(frames, 1, Len(frames) - 1)
       IN  /\ transformPath' = path
           /\ lastVisit' = Some([pre |-> f.pre, post |-> path,
                                 threw |-> popProp # f.prop])
           /\ IF popProp = f.prop
                THEN /\ UNCHANGED <<err, unwinding>>
                     /\ IF callers = <<>>
                          THEN /\ rootPos' = 2
                               /\ frames' = callers
                          ELSE LET g == callers[Len(callers)]
                                   at == AfterCall(g.method, g.pos, g.iter)
                               IN  /\ frames' = CallerAt(callers, at[1], at[2])
                                   /\ UNCHANGED rootPos
                ELSE \* AssertionError thrown out of the finally block
                     /\ err' = Some(NewError(path))
                     /\ unwinding' = TRUE
                     /\ frames' = callers
                     /\ UNCHANGED rootPos

\* the running method throws a new Error (a hard error, a TypeError on a
\* malformed node, a failed assertion)
MethodThrow ==
    /\ rootPos = 1
    /\ ~unwinding
    /\ CurMethod \in ReturnsVisitResult => CurPos = 1
    /\ err' = Some(NewError(transformPath))
    /\ unwinding' = TRUE
    /\ UNCHANGED <<transformPath, frames, rootPos, lastVisit>>
    /\ UNCHANGED visitOthers

\* the exception reaches the innermost active visit(): catch decorates it
\* and rethrows, finally pops the property name
VisitCatch ==
    /\ unwinding
    /\ frames # <<>>
    /\ LET f == frames[Len(frames)]
           path == PopPath(transformPath, TRUE)
       IN  /\ err' = Some([Decorate(err[1], transformPath)
                          EXCEPT !.catches = @ + 1])
           /\ transformPath' = path
           /\ frames' = SubSeq(frames, 1, Len(frames) - 1)
           /\ lastVisit' = Some([pre |-> f.pre, post |-> path, threw |-> TRUE])
    /\ UNCHANGED <<rootPos, unwinding>>
    /\ UNCHANGED visitOthers

\* transformApiDoc returns the document to its caller
ApiDocReturn ==
    /\ rootPos = 2
    /\ ~unwinding
    /\ rootPos' = 0
    /\ UNCHANGED <<transformPath, frames, err, lastVisit, unwinding>>
    /\ UNCHANGED visitOthers

\* the exception leaves transformApiDoc
ApiDocThrow ==
    /\ rootPos # 0
    /\ unwinding
    /\ frames = <<>>
    /\ rootPos' = 0
    /\ unwinding' = FALSE
    /\ UNCHANGED <<transformPath, frames, err, lastVisit>>
    /\ UNCHANGED visitOthers

----------------------------------------------------------------------------
(* procoreDocsToOpenapiMain(args, options)                                  *)

FileNames == {"-", "a.json"}

RECURSIVE SeqsUpTo(_, _)
\* the sequences over S of length at most n
SeqsUpTo(S, n) ==
    IF n = 0 THEN {<<>>}
    ELSE LET shorter == SeqsUpTo(S, n - 1)
         IN  shorter \cup {Append(q, x) : q \in shorter, x \in S}

\* outcome "ok": options and file arguments were parsed,
\* "version": -V was given, "help": -h was given (Commander writes the
\* usage to stdout and throws with exitCode 0), "usage": Commander rejected
\* the arguments (it writes the message to stderr and throws with exitCode 1)
ArgSets ==
    [outcome : {"ok"}, files : SeqsUpTo(FileNames, MaxFiles),
     verbose : 0..MaxFlags, quiet : 0..MaxFlags, isTTY : BOOLEAN]
    \cup [outcome : {"version", "help", "usage"}, files : {<<>>},
          verbose : {0}, quiet : {0}, isTTY : {FALSE}]

\* the count of -v alone
VerbosityOfVerboseAlone == cliArgs.verbose

\* (argOpts.verbose || 0) - (argOpts.quiet || 0)
Verbosity == cliArgs.verbose - cliArgs.quiet

\* a list with Multipart before Deprecated
FixupTransformersMultipartEarly ==
    <<"DocBugs", "NullableToTypeNull", "DateEnum", "TimeMinMax",
      "FormatFromContext", "Multipart", "Deprecated", "ErrorResponse">>

\* the fix-up passes of ProcoreFixupsTransformer, in the order of
\* this.transformers
FixupTransformers ==
    <<"DocBugs", "NullableToTypeNull", "DateEnum", "TimeMinMax",
      "FormatFromContext", "Deprecated", "Multipart", "ErrorResponse">>

\* a combinator fulfilled by the first promise fulfilled
AnyRead(rs) == \E i \in DOMAIN rs : rs[i] = "parsed"

\* Promise.all(promises) is fulfilled once every promise is fulfilled
AllRead(rs) == \A i \in DOMAIN rs : rs[i] = "parsed"

\* a main which would write the combined document without the fix-ups
AfterStageNoFixups(pc, done) ==
    CASE pc = "await" -> "construct"
      [] pc = "construct" -> "transform"
      [] pc = "transform" -> IF done THEN "combine" ELSE "transform"
      [] pc = "combine" -> "write"
      [] pc = "fixups" -> IF done THEN "write" ELSE "fixups"
      [] pc = "write" -> "exited"

\* the statement main goes to after the statement at pc has completed
AfterStage(pc, done) ==
    CASE pc = "await" -> "construct"
      [] pc = "construct" -> "transform"
      [] pc = "transform" -> IF done THEN "combine" ELSE "transform"
      [] pc = "combine" -> "fixups"
      [] pc = "fixups" -> IF done THEN "write" ELSE "fixups"
      [] pc = "write" -> "exited"

CliIdle ==
    /\ cliPc = "idle"
    /\ cliArgs = [outcome |-> "none", files |-> <<>>, verbose |-> 0,
                  quiet |-> 0, isTTY |-> FALSE]
    /\ filenames = <<>>
    /\ reads = <<>>
    /\ allPromise = [state |-> "none", reason |-> None]
    /\ constructed = FALSE
    /\ transformCalls = 0
    /\ openapiDocs = <<>>
    /\ combined = None
    /\ openApi = None
    /\ fixLog = <<>>
    /\ failure = None
    /\ stdout = <<>>
    /\ stderr = <<>>
    /\ exitCode = None
    /\ warnCalls = <<>>

\* main is called with some arguments
CliStart ==
    /\ cliPc = "parse"
    /\ cliArgs \in ArgSets
    /\ filenames = <<>>
    /\ reads = <<>>
    /\ allPromise = [state |-> "none", reason |-> None]
    /\ constructed = FALSE
    /\ transformCalls = 0
    /\ openapiDocs = <<>>
    /\ combined = None
    /\ openApi = None
    /\ fixLog = <<>>
    /\ failure = None
    /\ stdout = <<>>
    /\ stderr = <<>>
    /\ exitCode = None
    /\ warnCalls = <<>>

\* catch (err) { options.stderr.write(`${err}\n`); return 1; }
CatchError(e) ==
    /\ failure' = Some(e)
    /\ stderr' = Append(stderr, [kind |-> "error", error |-> e])
    /\ exitCode' = Some(1)
    /\ cliPc' = "exited"

\* command.parse(args), -V, and the start of the reads
ParseArgs ==
    /\ cliPc = "parse"
    /\ CASE cliArgs.outcome = "version" ->
              /\ stdout' = Append(stdout, [kind |-> "version"])
              /\ exitCode' = Some(0)
              /\ cliPc' = "exited"
              /\ UNCHANGED <<filenames, reads, allPromise, stderr>>
         [] cliArgs.outcome = "help" ->
              /\ stdout' = Append(stdout, [kind |-> "help"])
              /\ exitCode' = Some(0)
              /\ cliPc' = "exited"
              /\ UNCHANGED <<filenames, reads, allPromise, stderr>>
         [] cliArgs.outcome = "usage" ->
              /\ stderr' = Append(stderr, [kind |-> "usage"])
              /\ exitCode' = Some(1)
              /\ cliPc' = "exited"
              /\ UNCHANGED <<filenames, reads, allPromise, stdout>>
         [] cliArgs.outcome = "ok" ->
              /\ filenames' = IF cliArgs.files = <<>> THEN <<"-">>
                              ELSE cliArgs.files
              /\ stderr' = IF cliArgs.files = <<>> /\ cliArgs.isTTY
                             THEN Append(stderr, [kind |-> "noFilename"])
                             ELSE stderr
              /\ reads' = [i \in 1..Len(filenames') |-> "pending"]
              /\ allPromise' = [state |-> "pending", reason |-> None]
              /\ cliPc' = "await"
              /\ UNCHANGED <<stdout, exitCode>>
    /\ UNCHANGED <<cliArgs, constructed, transformCalls, openapiDocs,
                   combined, openApi, fixLog, failure>>
    /\ UNCHANGED warnCalls
    /\ UNCHANGED cliOthers

\* readJson(filename) or streamToJson(stdin) is fulfilled: input i was read
\* and JSON.parse returned
ReadParsed(i) ==
    /\ cliPc # "parse"
    /\ i \in DOMAIN reads
    /\ reads[i] = "pending"
    /\ reads' = [reads EXCEPT ![i] = "parsed"]
    /\ allPromise' = IF allPromise.state = "pending" /\ AllRead(reads')
                       THEN [allPromise EXCEPT !.state = "fulfilled"]
                       ELSE allPromise
    /\ UNCHANGED <<cliPc, cliArgs, filenames, constructed, transformCalls,
                   openapiDocs, combined, openApi, fixLog, failure, stdout,
                   stderr, exitCode>>
    /\ UNCHANGED warnCalls
    /\ UNCHANGED cliOthers

\* readFile or JSON.parse failed for input i: its promise is rejected, and
\* so is the Promise.all unless it is settled already
ReadFailed(i) ==
    /\ cliPc # "parse"
    /\ i \in DOMAIN reads
    /\ reads[i] = "pending"
    /\ reads' = [reads EXCEPT ![i] = "failed"]
    /\ allPromise' = IF allPromise.state = "pending"
                       THEN [state |-> "rejected",
                             reason |-> Some([stage |-> "read", input |-> i])]
                       ELSE allPromise
    /\ UNCHANGED <<cliPc, cliArgs, filenames, constructed, transformCalls,
                   openapiDocs, combined, openApi, fixLog, failure, stdout,
                   stderr, exitCode>>
    /\ UNCHANGED warnCalls
    /\ UNCHANGED cliOthers

\* const docs = await Promise.all(...): main resumes with the documents
AwaitFulfilled ==
    /\ cliPc = "await"
    /\ allPromise.state = "fulfilled"
    /\ cliPc' = AfterStage("await", TRUE)
    /\ UNCHANGED <<cliArgs, filenames, reads, allPromise, constructed,
                   transformCalls, openapiDocs, combined, openApi, fixLog,
                   failure, stdout, stderr, exitCode>>
    /\ UNCHANGED warnCalls
    /\ UNCHANGED cliOthers

\* the await throws the reason of the rejected Promise.all
AwaitRejected ==
    /\ cliPc = "await"
    /\ allPromise.state = "rejected"
    /\ CatchError(allPromise.reason[1])
    /\ UNCHANGED <<cliArgs, filenames, reads, allPromise, constructed,
                   transformCalls, openapiDocs, combined, openApi, fixLog,
                   stdout>>
    /\ UNCHANGED warnCalls
    /\ UNCHANGED cliOthers

\* new ProcoreApiDocToOpenApiTransformerOrMock()
Construct ==
    /\ cliPc = "construct"
    /\ constructed' = TRUE
    /\ \/ /\ cliPc' = AfterStage("construct", TRUE)
          /\ UNCHANGED <<failure, stderr, exitCode>>
       \/ CatchError([stage |-> "construct", input |-> 0])
    /\ UNCHANGED <<cliArgs, filenames, reads, allPromise, transformCalls,
                   openapiDocs, combined, openApi, fixLog, stdout>>
    /\ UNCHANGED warnCalls
    /\ UNCHANGED cliOthers

RECURSIVE FormatFrom(_, _)
\* format(...values) of node:util for a format string and strings as the
\* other values: each %d, %s or %o takes the next value, the values left
\* over are added after a space each
FormatFrom(str, args) ==
    IF str = <<>>
      THEN IF args = <<>> THEN <<>>
           ELSE <<" ", Head(args)>> \o FormatFrom(<<>>, Tail(args))
    ELSE IF Head(str) \in {"%d", "%s", "%o"} /\ args # <<>>
      THEN <<Head(args)>> \o FormatFrom(Tail(str), Tail(args))
    ELSE <<Head(str)>> \o FormatFrom(Tail(str), args)

\* the calls of this.warn of a transformApiDoc: the path at which the
\* transformer is, the format string and the other values
Warnings ==
    {[path |-> <<>>,
      values |-> [format |-> <<"mytest">>, args |-> <<>>]],
     [path |-> <<Name("versions"), Name("0"), Name("endpoints")>>,
      values |-> [format |-> <<"Unrecognized support_level:">>,
                  args |-> <<"ga">>]]}

\* transformer.warn as set by main when verbosity >= 0: one line on stderr
WarnLine(i, path, values) ==
    [kind |-> "warning", file |-> filenames[i],
     pointer |-> toJsonPointer(path),
     message |-> FormatFrom(values.format, values.args)]

\* one callback of docs.map: transformer.warn is set if verbosity >= 0,
\* then transformer.transformApiDoc(doc) warns some times and returns or
\* throws
TransformDoc ==
    /\ cliPc = "transform"
    /\ LET i == Len(openapiDocs) + 1
       IN  \E ws \in SeqsUpTo(Warnings, MaxWarnings) :
             LET lines == IF Verbosity >= 0
                            THEN [k \in 1..Len(ws) |->
                                    WarnLine(i, ws[k].path, ws[k].values)]
                            ELSE <<>>
             IN  /\ transformCalls' = transformCalls + 1
                 /\ warnCalls' =
                      warnCalls
                        \o [k \in 1..Len(ws) |->
                              [input |-> i, path |-> ws[k].path,
                               values |-> ws[k].values]]
                 /\ \/ /\ openapiDocs' = Append(openapiDocs,
                                [from |-> <<i>>, passes |-> <<>>,
                                 wrapped |-> FALSE])
                       /\ cliPc' = AfterStage("transform",
                                              i = Len(filenames))
                       /\ stderr' = stderr \o lines
                       /\ UNCHANGED <<failure, exitCode>>
                    \/ /\ failure' = Some([stage |-> "transform",
                                           input |-> i])
                       /\ stderr' = (stderr \o lines)
                             \o <<[kind |-> "error", error |-> failure'[1]]>>
                       /\ exitCode' = Some(1)
                       /\ cliPc' = "exited"
                       /\ UNCHANGED openapiDocs
    /\ UNCHANGED <<cliArgs, filenames, reads, allPromise, constructed,
                   combined, openApi, fixLog, stdout>>
    /\ UNCHANGED cliOthers

\* combined = openapiDocs.length < 2 ? openapiDocs[0]
\*                                   : combineOpenapi(openapiDocs)
\* and the call transformOpenApi(combined) of a new ProcoreFixupsTransformer
Combine ==
    /\ cliPc = "combine"
    /\ \/ /\ combined' = Some(
                IF Len(openapiDocs) < 2 THEN openapiDocs[1]
                ELSE [from |-> [k \in 1..Len(openapiDocs) |->
                                  openapiDocs[k].from[1]],
                      passes |-> <<>>, wrapped |-> FALSE])
          /\ openApi' = combined'
          /\ cliPc' = AfterStage("combine", TRUE)
          /\ UNCHANGED <<failure, stderr, exitCode>>
       \/ /\ Len(openapiDocs) >= 2
          /\ CatchError([stage |-> "combine", input |-> 0])
          /\ UNCHANGED <<combined, openApi>>
    /\ UNCHANGED <<cliArgs, filenames, reads, allPromise, constructed,
                   transformCalls, openapiDocs, fixLog, stdout>>
    /\ UNCHANGED warnCalls
    /\ UNCHANGED cliOthers

\* one iteration of
\*   for (const transformer of this.transformers)
\*     openApi = transformer.transformOpenApi(openApi);
\* after the last one the document is returned with info, servers and
\* security schemes added
FixupPass ==
    /\ cliPc = "fixups"
    /\ LET k == Len(fixLog) + 1
           pass == FixupTransformers[k]
           last == k = Len(FixupTransformers)
           out == [openApi[1] EXCEPT !.passes = Append(@, pass)]
       IN  \/ /\ fixLog' = Append(fixLog, [pass |-> pass, input |-> openApi[1],
                                            output |-> out])
              /\ openApi' = Some([out EXCEPT !.wrapped = last])
              /\ cliPc' = AfterStage("fixups", last)
              /\ UNCHANGED <<failure, stderr, exitCode>>
           \/ /\ CatchError([stage |-> "fixup", input |-> k])
              /\ UNCHANGED <<openApi, fixLog>>
    /\ UNCHANGED <<cliArgs, filenames, reads, allPromise, constructed,
                   transformCalls, openapiDocs, combined, stdout>>
    /\ UNCHANGED warnCalls
    /\ UNCHANGED cliOthers

\* options.stdout.write(JSON.stringify(fixed, undefined, 2)); return 0;
WriteOutput ==
    /\ cliPc = "write"
    /\ stdout' = Append(stdout, [kind |-> "document", doc |-> openApi[1]])
    /\ exitCode' = Some(0)
    /\ cliPc' = AfterStage("write", TRUE)
    /\ UNCHANGED <<cliArgs, filenames, reads, allPromise, constructed,
                   transformCalls, openapiDocs, combined, openApi, fixLog,
                   failure, stderr>>
    /\ UNCHANGED warnCalls
    /\ UNCHANGED cliOthers

----------------------------------------------------------------------------
(* combineOpenapi(openapiDocs)                                              *)

\* version strings, cut at the dots
Versions == {<<"3", ".", "0.3">>, <<"3", ".", "1.0">>, <<"2", ".", "0">>}

\* String.prototype.startsWith
StartsWith(str, prefix) ==
    /\ Len(str) >= Len(prefix)
    /\ SubSeq(str, 1, Len(prefix)) = prefix

\* a Paths Object: path string -> Path Item
NoPaths == <<>>
OnePath(k, item) == [p \in {k} |-> item]
PathMaps ==
    {NoPaths, OnePath("/a", "item1"), OnePath("/a", "item2"),
     OnePath("/b", "item3"),
     [p \in {"/a", "/b"} |-> IF p = "/a" THEN "item4" ELSE "item5"]}

\* Tag Objects: two of the same name which differ, one of another name
TagA == [name |-> "a", description |-> "d1"]
TagA2 == [name |-> "a", description |-> "d2"]
TagB == [name |-> "b", description |-> "d1"]
TagLists ==
    {<<>>, <<TagA>>, <<TagA2>>, <<TagB>>, <<TagA, TagB>>, <<TagB, TagA>>,
     <<TagA, TagA>>, <<TagA, TagA2>>}

\* the documents given: tags may be missing (None), any other top-level
\* property is in extra
OpenapiDocs ==
    [openapi : Versions,
     tags : {None} \cup {Some(ts) : ts \in TagLists},
     paths : PathMaps,
     extra : SUBSET {"components"}]

\* tagsByName.get(tagName): the entries with that key (none or one)
MapGet(map, name) ==
    {map[i] : i \in {j \in 1..Len(map) : map[j].name = name}}

\* a tags loop without the comparison of tags of one name
RECURSIVE MergeTagsFirstWins(_, _)
MergeTagsFirstWins(map, tags) ==
    IF tags = <<>> THEN [error |-> None, map |-> map]
    ELSE LET tag == Head(tags)
             old == MapGet(map, tag.name)
         IN  IF old # {}
               THEN MergeTagsFirstWins(map, Tail(tags))
               ELSE MergeTagsFirstWins(Append(map, tag), Tail(tags))

\* a tags loop which would keep every tag
RECURSIVE MergeTagsNoDedup(_, _)
MergeTagsNoDedup(map, tags) ==
    IF tags = <<>> THEN [error |-> None, map |-> map]
    ELSE LET tag == Head(tags)
             old == MapGet(map, tag.name)
         IN  IF old # {} /\ old # {tag}
               THEN [error |-> Some("tagMismatch"), map |-> map]
               ELSE MergeTagsNoDedup(Append(map, tag), Tail(tags))

\* for (const tag of tags): a tag whose name is in the Map must be deeply
\* equal to the one stored (assert.deepStrictEqual), a new one is added
RECURSIVE MergeTags(_, _)
MergeTags(map, tags) ==
    IF tags = <<>> THEN [error |-> None, map |-> map]
    ELSE LET tag == Head(tags)
             old == MapGet(map, tag.name)
         IN  IF old # {}
               THEN IF old = {tag}
                      THEN MergeTags(map, Tail(tags))
                      ELSE [error |-> Some("tagMismatch"), map |-> map]
               ELSE MergeTags(Append(map, tag), Tail(tags))

\* a paths loop without the test for a path which is there already
MergePathsOverwrite(paths, into) ==
    [error |-> None,
     paths |-> [k \in DOMAIN into \cup DOMAIN paths |->
                  IF k \in DOMAIN paths THEN paths[k] ELSE into[k]]]

\* for (const [pathStr, pathObj] of Object.entries(paths)): a path which is
\* in combinedPaths already is an error, a new one is added
MergePaths(paths, into) ==
    IF DOMAIN paths \cap DOMAIN into # {}
      THEN [error |-> Some("duplicatePath"), paths |-> into]
      ELSE [error |-> None,
            paths |-> [k \in DOMAIN into \cup DOMAIN paths |->
                         IF k \in DOMAIN into THEN into[k] ELSE paths[k]]]

\* a check of the prefix only, without the comparison with firstVer
CheckVersionPrefixOnly(first, openapi) ==
    IF ~StartsWith(openapi, <<"3", ".">>) THEN Some("unsupportedVersion")
    ELSE None

\* the checks of the openapi property against '3.' and against firstVer
CheckVersion(first, openapi) ==
    IF ~StartsWith(openapi, <<"3", ".">>) THEN Some("unsupportedVersion")
    ELSE IF first # None /\ first # Some(openapi)
      THEN Some("versionMismatch")
    ELSE None

CombineIdle ==
    /\ cDocs = <<>>
    /\ firstVer = None
    /\ tagsByName = <<>>
    /\ combinedPaths = <<>>
    /\ cResult = [status |-> "none", value |-> None, error |-> None]

CombineStart ==
    /\ cDocs = <<>>
    /\ firstVer = None
    /\ tagsByName = <<>>
    /\ combinedPaths = <<>>
    /\ cResult = [status |-> "running", value |-> None, error |-> None]

Threw(kind) == [status |-> "threw", value |-> None, error |-> kind]

\* one iteration of for (const openapiDoc of openapiDocs), for the next
\* document d of the argument
CombineDoc(d) ==
    /\ cResult.status = "running"
    /\ Len(cDocs) < MaxDocs
    /\ cDocs' = Append(cDocs, d)
    /\ LET verError == CheckVersion(firstVer, d.openapi)
           tags == MergeTags(tagsByName,
                             IF d.tags = None THEN <<>> ELSE d.tags[1])
           paths == MergePaths(d.paths, combinedPaths)
       IN  IF verError # None
             THEN /\ cResult' = Threw(verError)
                  /\ UNCHANGED <<firstVer, tagsByName, combinedPaths>>
           ELSE IF d.extra # {}
             THEN /\ cResult' = Threw(Some("unsupportedProperties"))
                  /\ firstVer' = Some(d.openapi)
                  /\ UNCHANGED <<tagsByName, combinedPaths>>
           ELSE IF tags.error # None
             THEN /\ cResult' = Threw(tags.error)
                  /\ firstVer' = Some(d.openapi)
                  /\ tagsByName' = tags.map
                  /\ UNCHANGED combinedPaths
           ELSE IF paths.error # None
             THEN /\ cResult' = Threw(paths.error)
                  /\ firstVer' = Some(d.openapi)
                  /\ tagsByName' = tags.map
                  /\ combinedPaths' = paths.paths
           ELSE /\ firstVer' = Some(d.openapi)
                /\ tagsByName' = tags.map
                /\ combinedPaths' = paths.paths
                /\ UNCHANGED cResult
    /\ UNCHANGED combineOthers

\* the loop is over: undefined without documents, else the combined document
CombineReturn ==
    /\ cResult.status = "running"
    /\ cResult' = [status |-> "returned",
                   value |-> IF firstVer = None THEN None
                             ELSE Some([openapi |-> firstVer[1],
                                        tags |-> tagsByName,
                                        paths |-> combinedPaths]),
                   error |-> None]
    /\ UNCHANGED <<cDocs, firstVer, tagsByName, combinedPaths>>
    /\ UNCHANGED combineOthers

----------------------------------------------------------------------------
(* makeEndpointFilter(minSupportLevel, includeBetaPrograms)                 *)

\* values of support_level, in order of increasing support
supportLevels == <<"internal", "alpha", "beta", "production">>

\* Array.prototype.indexOf: the first index (from 0) of x, or -1
IndexOf(seq, x) ==
    IF \E i \in 1..Len(seq) : seq[i] = x
      THEN (CHOOSE i \in 1..Len(seq) :
              seq[i] = x /\ \A k \in 1..(i - 1) : seq[k] # x) - 1
      ELSE -1

BetaPrograms == {"p1", "p2"}

\* the arguments tried; "zulu" is no support level
FilterArgSets ==
    [minSupportLevel : {"internal", "alpha", "beta", "production", "zulu"},
     includeBetaPrograms : SUBSET BetaPrograms]

\* the endpoints tried; "gamma" is no support level
Endpoints ==
    [support_level : {"internal", "alpha", "beta", "production", "gamma"},
     beta_programs : SeqsUpTo(BetaPrograms, MaxPrograms),
     internal_only : BOOLEAN]

\* a strict comparison
SupportIndexAbove(supportIndex, minIndex) == supportIndex > minIndex

\* return supportIndex >= minIndex
SupportIndexReached(supportIndex, minIndex) == supportIndex >= minIndex

\* the body of endpointFilter; thisWarns: `this` of the call has a warn
\* method (without one, this.warn(...) is a TypeError)
EndpointFilterBody(f, endpoint, thisWarns) ==
    LET supportIndex == IndexOf(supportLevels, endpoint.support_level)
        Returned(v, w) == [status |-> "returned", value |-> v, warned |-> w]
    IN  IF endpoint.internal_only /\ f.minIndex > 0
          THEN Returned(FALSE, FALSE)
        ELSE IF \E k \in 1..Len(endpoint.beta_programs) :
                  endpoint.beta_programs[k] \in f.includeBetaPrograms
          THEN Returned(TRUE, FALSE)
        ELSE IF supportIndex < 0
          THEN IF thisWarns
                 THEN Returned(SupportIndexReached(supportIndex, f.minIndex),
                               TRUE)
                 ELSE [status |-> "threw", value |-> FALSE, warned |-> FALSE]
        ELSE Returned(SupportIndexReached(supportIndex, f.minIndex), FALSE)

NoFilterCall ==
    [status |-> "none", value |-> FALSE, warned |-> FALSE,
     endpoint |-> None, thisWarns |-> FALSE]

FilterIdle ==
    /\ filterArgs = [minSupportLevel |-> "none", includeBetaPrograms |-> {}]
    /\ endpointFilter = None
    /\ filterCall = NoFilterCall

FilterStart ==
    /\ filterArgs \in FilterArgSets
    /\ endpointFilter = None
    /\ filterCall = NoFilterCall

\* makeEndpointFilter is called: a RangeError for an unknown level, else
\* the closure over minIndex and the Set of beta programs
MakeEndpointFilter ==
    /\ endpointFilter = None
    /\ filterCall.status = "none"
    /\ LET minIndex == IndexOf(supportLevels, filterArgs.minSupportLevel)
       IN  IF minIndex < 0
             THEN /\ filterCall' = [NoFilterCall EXCEPT !.status = "rangeError"]
                  /\ UNCHANGED endpointFilter
             ELSE /\ endpointFilter' =
                       Some([minIndex |-> minIndex,
                             includeBetaPrograms |->
                               filterArgs.includeBetaPrograms])
                  /\ UNCHANGED filterCall
    /\ UNCHANGED filterArgs
    /\ UNCHANGED filterOthers

\* the filter is called on an endpoint
CallEndpointFilter ==
    /\ endpointFilter # None
    /\ \E endpoint \in Endpoints, thisWarns \in BOOLEAN :
         LET outcome ==
               EndpointFilterBody(endpointFilter[1], endpoint, thisWarns)
         IN  filterCall' =
               [status |-> outcome.status, value |-> outcome.value,
                warned |-> outcome.warned,
                endpoint |-> Some(endpoint), thisWarns |-> thisWarns]
    /\ UNCHANGED <<filterArgs, endpointFilter>>
    /\ UNCHANGED filterOthers

----------------------------------------------------------------------------
(* transformEndpoints(endpoints)                                            *)

\* values of base_path, path and verb; base_path + path is the
\* concatenation of the two strings
BasePaths == {<<"/rest">>, <<"/rest", "/v1">>}
SubPaths == {<<"/v1", "/x">>, <<"/x">>}
Verbs == {"get", "post"}

\* the endpoints tried; accepted: there is no options.endpointFilter, or it
\* returns a true value for the endpoint
EndpointInputs ==
    [base_path : BasePaths, path : SubPaths, verb : Verbs,
     accepted : BOOLEAN]

\* what transformEndpoint returns for the endpoint at index i
TransformEndpointResult(endpoint, i) ==
    [path |-> endpoint.base_path \o endpoint.path,
     method |-> endpoint.verb,
     operation |-> [endpoint |-> i]]

\* a loop body which would keep the later operation
AddOperationOverwrite(paths, path, method, operation) ==
    [error |-> None,
     paths |-> [p \in DOMAIN paths \cup {path} |->
                  IF p = path
                    THEN [m \in (IF p \in DOMAIN paths THEN DOMAIN paths[p]
                                 ELSE {}) \cup {method} |->
                            IF m = method THEN operation ELSE paths[p][m]]
                    ELSE paths[p]]]

\* const pathItem = paths[path]; a new path item, a new method of the path
\* item, or the error for a method which the path item has already
AddOperation(paths, path, method, operation) ==
    IF path \notin DOMAIN paths
      THEN [error |-> None,
            paths |-> [p \in DOMAIN paths \cup {path} |->
                         IF p = path THEN [m \in {method} |-> operation]
                         ELSE paths[p]]]
    ELSE IF method \notin DOMAIN paths[path]
      THEN [error |-> None,
            paths |-> [paths EXCEPT ![path] =
                         [m \in DOMAIN @ \cup {method} |->
                            IF m = method THEN operation ELSE @[m]]]]
    ELSE [error |-> Some("methodAppearsMultipleTimes"), paths |-> paths]

EndpointsIdle ==
    /\ endpoints = <<>>
    /\ pathsObj = <<>>
    /\ endpointsResult = [status |-> "none", error |-> None]

EndpointsStart ==
    /\ endpoints = <<>>
    /\ pathsObj = <<>>
    /\ endpointsResult = [status |-> "running", error |-> None]

\* one iteration of for (const [i, endpoint] of Object.entries(endpoints))
\* in which transformEndpoint returns, or is not called
TransformEndpointsStep(endpoint) ==
    /\ endpointsResult.status = "running"
    /\ Len(endpoints) < MaxEndpoints
    /\ endpoints' = Append(endpoints, endpoint)
    /\ IF ~endpoint.accepted
         THEN UNCHANGED <<pathsObj, endpointsResult>>
         ELSE LET r == TransformEndpointResult(endpoint, Len(endpoints))
                  added == AddOperation(pathsObj, r.path, r.method,
                                        r.operation)
              IN  /\ pathsObj' = added.paths
                  /\ endpointsResult' =
                       IF added.error = None THEN endpointsResult
                       ELSE [status |-> "threw", error |-> added.error]
    /\ UNCHANGED endpointsOthers

\* an iteration in which the filter or transformEndpoint throws
TransformEndpointsThrow(endpoint) ==
    /\ endpointsResult.status = "running"
    /\ Len(endpoints) < MaxEndpoints
    /\ endpoints' = Append(endpoints, endpoint)
    /\ endpointsResult' = [status |-> "threw",
                           error |-> Some("transformEndpoint")]
    /\ UNCHANGED pathsObj
    /\ UNCHANGED endpointsOthers

\* return paths
TransformEndpointsReturn ==
    /\ endpointsResult.status = "running"
    /\ endpointsResult' = [status |-> "returned", error |-> None]
    /\ UNCHANGED <<endpoints, pathsObj>>
    /\ UNCHANGED endpointsOthers

----------------------------------------------------------------------------
(* transformBodyParams(params)                                              *)

indentIncrement == 2

\* the body_params tried; name None is null
BodyParamInputs ==
    [indentation : 0..MaxIndentation,
     name : {None, Some("a"), Some("b")},
     type : {"object", "array", "string"}]

\* a schema object: properties is a set of <<name, identity of the schema>>
NewSchema(type) == [type |-> type, items |-> None, properties |-> {}]

\* indentation < indentIncrement || indentation % indentIncrement !== 0
BadIndentation(indentation) ==
    indentation < indentIncrement \/ indentation % indentIncrement # 0

\* a check which would take any grandparent without items
ImplicitParentUnderAny(depth, stack, heap) ==
    /\ depth > 2
    /\ depth - 1 = Len(stack)
    /\ heap[stack[depth - 1]].items = None

\* depth > 2 && depth - 1 === schemaForDepth.length, and the schema at
\* depth - 2 is an array without items
ImplicitParentApplies(depth, stack, heap) ==
    /\ depth > 2
    /\ depth - 1 = Len(stack)
    /\ heap[stack[depth - 1]].type = "array"
    /\ heap[stack[depth - 1]].items = None

\* the heap and the stack once the implicit { type: 'array' } is the items
\* of the grandparent and the schema of depth - 1
WithImplicitParent(depth, stack, heap) ==
    LET id == Len(heap) + 1
    IN  [heap |-> Append([heap EXCEPT ![stack[depth - 1]].items = Some(id)],
                         NewSchema("array")),
         stack |-> Append(stack, id)]

\* the part of the loop body after const schema = visit(...): the schema
\* (of identity id) is made the items or a property of the parent
AttachToParent(heap, parent, id, name) ==
    LET parentType == heap[parent].type
        Fail(e) == [error |-> Some(e), heap |-> heap]
        \* the schema is a property of the object schema obj
        AsProperty(h, obj) ==
            IF name = None THEN [error |-> Some("missingName"), heap |-> h]
            ELSE IF \E q \in h[obj].properties : q[1] = name[1]
              THEN [error |-> Some("duplicateProperty"), heap |-> h]
            ELSE [error |-> None,
                  heap |-> [h EXCEPT ![obj].properties =
                                        @ \cup {<<name[1], id>>}]]
    IN  IF parentType = "array" /\ name = None
          THEN IF heap[parent].items # None THEN Fail("existingItems")
               ELSE [error |-> None,
                     heap |-> [heap EXCEPT ![parent].items = Some(id)]]
        ELSE IF parentType = "object" THEN AsProperty(heap, parent)
        ELSE IF parentType = "array"
          THEN IF heap[parent].items = None
                 THEN LET obj == Len(heap) + 1
                      IN  AsProperty(
                            Append([heap EXCEPT ![parent].items = Some(obj)],
                                   NewSchema("object")), obj)
               ELSE IF heap[heap[parent].items[1]].type # "object"
                 THEN Fail("nonObjectItems")
               ELSE AsProperty(heap, heap[parent].items[1])
        ELSE Fail("nonObjectOrArrayParent")

BodyIdle ==
    /\ bodyParams = <<>>
    /\ schemas = <<>>
    /\ schemaForDepth = <<>>
    /\ bodyLast = None
    /\ entrySchemas = <<>>
    /\ bodyResult = [status |-> "none", error |-> None]

\* const schemaForDepth = [{ type: 'object' }]
BodyStart ==
    /\ bodyParams = <<>>
    /\ schemas = <<NewSchema("object")>>
    /\ schemaForDepth = <<1>>
    /\ bodyLast = None
    /\ entrySchemas = <<>>
    /\ bodyResult = [status |-> "running", error |-> None]

BodyThrew(e) == [status |-> "threw", error |-> Some(e)]

\* a variant which replaces the schema of the depth and keeps the deeper
\* ones
SpliceOne(stack, depth, id) ==
    IF depth < Len(stack) THEN [stack EXCEPT ![depth + 1] = id]
    ELSE Append(stack, id)

\* schemaForDepth.splice(depth, schemaForDepth.length - depth, schema)
Splice(stack, depth, id) == Append(SubSeq(stack, 1, depth), id)

\* what an iteration found: the stack and the schemas before it, whether
\* it made the implicit parent, and the parent it used
Iteration(implicit, parent) ==
    Some([stack |-> schemaForDepth, schemas |-> schemas,
          implicit |-> implicit, parent |-> parent])

\* one iteration of for (const [i, param] of Object.entries(params));
\* transformParam returns a schema with the type of the param or throws
TransformBodyParam(param) ==
    /\ bodyResult.status = "running"
    /\ Len(bodyParams) < MaxBodyParams
    /\ bodyParams' = Append(bodyParams, param)
    /\ UNCHANGED bodyOthers
    /\ IF BadIndentation(param.indentation)
         THEN /\ bodyResult' = BodyThrew("indentation")
              /\ bodyLast' = Iteration(FALSE, None)
              /\ entrySchemas' = Append(entrySchemas, None)
              /\ UNCHANGED <<schemas, schemaForDepth>>
         ELSE
           LET depth == param.indentation \div indentIncrement
               implicit == ImplicitParentApplies(depth, schemaForDepth,
                                                 schemas)
               gap == IF implicit
                        THEN WithImplicitParent(depth, schemaForDepth, schemas)
                        ELSE [heap |-> schemas, stack |-> schemaForDepth]
           IN  IF depth > Len(gap.stack)
                 THEN \* schemaForDepth[depth - 1] is undefined
                      /\ bodyResult' = BodyThrew("noParent")
                      /\ bodyLast' = Iteration(implicit, None)
                      /\ entrySchemas' = Append(entrySchemas, None)
                      /\ schemas' = gap.heap
                      /\ schemaForDepth' = gap.stack
                 ELSE
                   LET parent == gap.stack[depth]
                       id == Len(gap.heap) + 1
                       made == Append(gap.heap, NewSchema(param.type))
                       attached == AttachToParent(made, parent, id,
                                                  param.name)
                   IN  /\ bodyLast' = Iteration(implicit, Some(parent))
                       /\ \/ /\ schemas' = attached.heap
                             /\ entrySchemas' = Append(entrySchemas, Some(id))
                             /\ IF attached.error # None
                                  THEN /\ bodyResult' =
                                            BodyThrew(attached.error[1])
                                       /\ schemaForDepth' = gap.stack
                                  ELSE /\ UNCHANGED bodyResult
                                       /\ schemaForDepth' =
                                            Splice(gap.stack, depth, id)
                          \/ /\ bodyResult' = BodyThrew("transformParam")
                             /\ entrySchemas' = Append(entrySchemas, None)
                             /\ schemas' = gap.heap
                             /\ schemaForDepth' = gap.stack

\* return schemaForDepth[0]
TransformBodyParamsReturn ==
    /\ bodyResult.status = "running"
    /\ bodyResult' = [status |-> "returned", error |-> None]
    /\ UNCHANGED <<bodyParams, schemas, schemaForDepth, bodyLast,
                   entrySchemas>>
    /\ UNCHANGED bodyOthers

----------------------------------------------------------------------------
(* transformParams(params, paramsIn)                                        *)

ParamTypes == {"array", "integer", "object"}

\* the element at index i (from 0) of a params array: its name is taken
\* to tell the array and the index
ParamInput(in, i, type) == [name |-> <<in, i>>, type |-> type]

\* a variant in which an element merged into an array is not the previous
\* schema of the next element
NextPrevSchemaKeep(prev, id, merged) == IF merged THEN prev ELSE Some(id)

\* prevSchema = schema
NextPrevSchema(prev, id, merged) == Some(id)

\* a variant in which the schema of an array comes with items
TransformParamSchemaWithItems(type) ==
    [type |-> type, items |-> IF type = "array" THEN Some(1) ELSE None]

\* the schema transformParam returns: { description, type, enum }, tuned
TransformParamSchema(type) == [type |-> type, items |-> None]

\* prevSchema && prevSchema.type === 'array'
PrevIsArray(prev, heap) == prev # None /\ heap[prev[1]].type = "array"

ParamsIdle ==
    /\ paramsIn = "none"
    /\ pathParams = <<>>
    /\ queryParams = <<>>
    /\ oasParams = <<>>
    /\ prevSchema = None
    /\ paramSchemas = <<>>
    /\ parameters = <<>>
    /\ paramsResult = [status |-> "none", error |-> None]

\* transformEndpoint calls transformPathParams(pathParams)
ParamsStart ==
    /\ paramsIn = "path"
    /\ pathParams = <<>>
    /\ queryParams = <<>>
    /\ oasParams = <<>>
    /\ prevSchema = None
    /\ paramSchemas = <<>>
    /\ parameters = <<>>
    /\ paramsResult = [status |-> "running", error |-> None]

ParamsOf(in) == IF in = "path" THEN pathParams ELSE queryParams

ParamsThrew(e) == [status |-> "threw", error |-> Some(e)]

\* one iteration of for (const [i, param] of Object.entries(params));
\* transformParam returns a schema with the type of the param or throws
TransformParamsStep(type) ==
    /\ paramsResult.status = "running"
    /\ paramsIn \in {"path", "query"}
    /\ Len(ParamsOf(paramsIn)) < MaxParams
    /\ LET param == ParamInput(paramsIn, Len(ParamsOf(paramsIn)), type)
           id == Len(paramSchemas) + 1
           made == Append(paramSchemas, TransformParamSchema(type))
           merged == PrevIsArray(prevSchema, made)
       IN  /\ IF paramsIn = "path"
                THEN /\ pathParams' = Append(pathParams, param)
                     /\ UNCHANGED queryParams
                ELSE /\ queryParams' = Append(queryParams, param)
                     /\ UNCHANGED pathParams
           /\ IF type = "object"
                THEN /\ paramsResult' = ParamsThrew("typeObject")
                     /\ UNCHANGED <<oasParams, prevSchema, paramSchemas>>
                ELSE
                  \/ /\ paramsResult' = ParamsThrew("transformParam")
                     /\ UNCHANGED <<oasParams, prevSchema, paramSchemas>>
                  \/ IF merged /\ made[prevSchema[1]].items # None
                       THEN /\ paramsResult' = ParamsThrew("conflictsWithItems")
                            /\ paramSchemas' = made
                            /\ UNCHANGED <<oasParams, prevSchema>>
                       ELSE /\ paramSchemas' =
                                 IF merged
                                   THEN [made EXCEPT ![prevSchema[1]].items =
                                                       Some(id)]
                                   ELSE made
                            /\ oasParams' =
                                 IF merged THEN oasParams
                                 ELSE Append(oasParams,
                                             [name |-> param.name,
                                              in |-> paramsIn,
                                              schema |-> id])
                            /\ prevSchema' =
                                 NextPrevSchema(prevSchema, id, merged)
                            /\ UNCHANGED paramsResult
    /\ UNCHANGED <<paramsIn, parameters>>
    /\ UNCHANGED paramsOthers

\* return oasParams: the path call is followed by the query call, and
\* parameters is [...path parameters, ...query parameters]
TransformParamsReturn ==
    /\ paramsResult.status = "running"
    /\ paramsIn \in {"path", "query"}
    /\ parameters' = parameters \o oasParams
    /\ oasParams' = <<>>
    /\ prevSchema' = None
    /\ IF paramsIn = "path"
         THEN /\ paramsIn' = "query"
              /\ UNCHANGED paramsResult
         ELSE /\ paramsIn' = "done"
              /\ paramsResult' = [status |-> "returned", error |-> None]
    /\ UNCHANGED <<pathParams, queryParams, paramSchemas>>
    /\ UNCHANGED paramsOthers

----------------------------------------------------------------------------
(* transformResponses(responses), transformSchemaProperties(properties)     *)

\* values of status: a string or a number, by its decimal digits
StatusValues ==
    [isString : BOOLEAN,
     digits : {<<2, 0, 0>>, <<4, 0, 4>>, <<6, 0, 0>>, <<2, 0>>}]

\* typeof status === 'string' && /^[2-5][0-9][0-9]$/.test(status)
ValidStatus(status) ==
    /\ status.isString
    /\ Len(status.digits) = 3
    /\ status.digits[1] \in 2..5
    /\ status.digits[2] \in 0..9
    /\ status.digits[3] \in 0..9

\* the property key of a value: a number is converted to its digits
PropertyKey(value) == value.digits

\* values of field: strings (one of them empty) and a number
FieldValues ==
    [isString : {TRUE}, digits : {<<>>, <<1>>, <<2>>}]
    \cup [isString : {FALSE}, digits : {<<1>>}]

\* !field || typeof field !== 'string'
InvalidField(field) == field.digits = <<>> \/ ~field.isString

\* a loop body which would assign without the test
AddByKeyOverwrite(map, key, value) ==
    [error |-> FALSE,
     map |-> [k \in DOMAIN map \cup {key} |->
                IF k = key THEN value ELSE map[k]]]

\* hasOwnProperty.call(map, key) is an error, else map[key] = value
AddByKey(map, key, value) ==
    IF key \in DOMAIN map THEN [error |-> TRUE, map |-> map]
    ELSE [error |-> FALSE,
          map |-> [k \in DOMAIN map \cup {key} |->
                     IF k = key THEN value ELSE map[k]]]

KeyedIdle ==
    /\ keyedCall = "none"
    /\ responses = <<>>
    /\ responseByStatus = <<>>
    /\ properties = <<>>
    /\ propertiesByName = <<>>
    /\ keyedWarnings = <<>>
    /\ keyedResult = [status |-> "none", error |-> None]

KeyedStart ==
    /\ keyedCall \in {"transformResponses", "transformSchemaProperties"}
    /\ responses = <<>>
    /\ responseByStatus = <<>>
    /\ properties = <<>>
    /\ propertiesByName = <<>>
    /\ keyedWarnings = <<>>
    /\ keyedResult = [status |-> "running", error |-> None]

KeyedThrew(e) == [status |-> "threw", error |-> Some(e)]

\* one iteration of the loop of transformResponses; transformResponse
\* returns the Response Object of the element or throws
TransformResponsesStep(status) ==
    /\ keyedCall = "transformResponses"
    /\ keyedResult.status = "running"
    /\ Len(responses) < MaxResponses
    /\ LET i == Len(responses)
           added == AddByKey(responseByStatus, PropertyKey(status),
                             [response |-> i])
       IN  /\ responses' = Append(responses, [status |-> status])
           /\ keyedWarnings' = IF ValidStatus(status) THEN keyedWarnings
                               ELSE Append(keyedWarnings, i)
           /\ IF added.error
                THEN /\ keyedResult' = KeyedThrew("multipleResponses")
                     /\ UNCHANGED responseByStatus
                ELSE \/ /\ responseByStatus' = added.map
                        /\ UNCHANGED keyedResult
                     \/ /\ keyedResult' = KeyedThrew("transformResponse")
                        /\ UNCHANGED responseByStatus
    /\ UNCHANGED <<keyedCall, properties, propertiesByName>>
    /\ UNCHANGED keyedOthers

\* one iteration of the loop of transformSchemaProperties; transformSchema
\* returns the schema of the element or throws
TransformSchemaPropertiesStep(field) ==
    /\ keyedCall = "transformSchemaProperties"
    /\ keyedResult.status = "running"
    /\ Len(properties) < MaxProperties
    /\ LET i == Len(properties)
           added == AddByKey(propertiesByName, PropertyKey(field),
                             [property |-> i])
       IN  /\ properties' = Append(properties, [field |-> field])
           /\ IF InvalidField(field)
                THEN /\ keyedResult' = KeyedThrew("invalidField")
                     /\ UNCHANGED propertiesByName
              ELSE IF added.error
                THEN /\ keyedResult' = KeyedThrew("duplicateField")
                     /\ UNCHANGED propertiesByName
                ELSE \/ /\ propertiesByName' = added.map
                        /\ UNCHANGED keyedResult
                     \/ /\ keyedResult' = KeyedThrew("transformSchema")
                        /\ UNCHANGED propertiesByName
    /\ UNCHANGED <<keyedCall, responses, responseByStatus, keyedWarnings>>
    /\ UNCHANGED keyedOthers

\* return responseByStatus, return propertiesByName
KeyedReturn ==
    /\ keyedResult.status = "running"
    /\ keyedResult' = [status |-> "returned", error |-> None]
    /\ UNCHANGED <<keyedCall, responses, responseByStatus, properties,
                   propertiesByName, keyedWarnings>>
    /\ UNCHANGED keyedOthers

----------------------------------------------------------------------------
(* transformApiDoc(doc), transformVersions(versions),                       *)
(* transformVersion(version)                                                *)

openapiVersion == "3.1.0"

\* the characters which /[^A-Za-z0-9._~-]/ does not match
UnreservedCharacters == {"A", "B", "a", "b", "-"}

\* String.prototype.toLowerCase on one character
ToLowerCase(c) ==
    IF c = "A" THEN "a" ELSE IF c = "B" THEN "b" ELSE c

RECURSIVE CoalesceReserved(_, _)
\* .replace(/[^A-Za-z0-9._~-]+/g, '-'): each run of other characters
\* becomes one '-'; inRun tells that the previous character was in a run
CoalesceReserved(s, inRun) ==
    IF s = <<>> THEN <<>>
    ELSE IF Head(s) \in UnreservedCharacters
      THEN <<Head(s)>> \o CoalesceReserved(Tail(s), FALSE)
    ELSE IF inRun THEN CoalesceReserved(Tail(s), TRUE)
    ELSE <<"-">> \o CoalesceReserved(Tail(s), TRUE)

RECURSIVE StripLeading(_)
\* .replace(/^-+/, '')
StripLeading(s) ==
    IF s # <<>> /\ Head(s) = "-" THEN StripLeading(Tail(s)) ELSE s

RECURSIVE StripTrailing(_)
\* .replace(/-+$/, '')
StripTrailing(s) ==
    IF s # <<>> /\ s[Len(s)] = "-"
      THEN StripTrailing(SubSeq(s, 1, Len(s) - 1))
      ELSE s

\* groupNameToUrlPath(groupName) for a string, a sequence of characters
GroupNameToUrlPath(groupName) ==
    LET stripped == StripTrailing(StripLeading(
                        CoalesceReserved(groupName, FALSE)))
    IN  [i \in 1..Len(stripped) |-> ToLowerCase(stripped[i])]

\* a version object: name is a string or undefined, tools an array or
\* undefined, endpoints an array which transformEndpoints transforms
\* ("valid") or on which it throws ("invalid")
Version(name, tools, versionEndpoints) ==
    [name |-> name, tools |-> tools, endpoints |-> versionEndpoints]

VersionObjects ==
    {Version(Some(<<"A">>), None, "valid"),
     Version(Some(<<"A">>), Some(<<"Core">>), "valid"),
     Version(Some(<<"A">>), Some(<<"Core">>), "invalid"),
     Version(Some(<<" ", "B", " ", " ", "a", "-">>), None, "valid"),
     Version(Some(<<" ", "B", " ", " ", "a", "-">>), Some(<<"Core">>),
             "invalid"),
     Version(None, None, "valid")}

\* the root objects: versions is an array of version objects, or no array
ApiDocs ==
    [versions : {Some(a) : a \in SeqsUpTo(VersionObjects, MaxVersions)}]
    \cup {[versions |-> None]}

\* an index computation which takes the first element
lastIsFirst(versions) == 0

\* const last = versions.length - 1
last(versions) == Len(versions) - 1

\* what the finally block would leave if it ran on return only
AfterFinallyOnReturn(pending, context) ==
    IF pending.status = "threw" THEN context
    ELSE [docsUrl |-> None, versionName |-> None, versionTools |-> None]

\* finally { ... = undefined }, after either completion of the try block
AfterFinally(pending, context) ==
    [docsUrl |-> None, versionName |-> None, versionTools |-> None]

\* what transformEndpoint puts in the operations: the externalDocs url
\* from this[docsUrlSymbol], the tags from this[versionToolsSymbol] (the
\* endpoints of these documents have no tools of their own); the version
\* name is compared with each endpoint.group
TransformEndpointsResult(versionEndpoints, url, name, tools) ==
    [endpoints |-> versionEndpoints, externalDocs |-> url, versionName |-> name,
     tags |-> tools]

ApiReturned(document) ==
    [status |-> "returned", document |-> Some(document), error |-> None]

ApiThrew(e) == [status |-> "threw", document |-> None, error |-> Some(e)]

NoCompletion == [status |-> "none", document |-> None, error |-> None]

VersionIdle ==
    /\ apiDocs = <<>>
    /\ apiCall = 0
    /\ versionPc = "idle"
    /\ docsUrl = None
    /\ versionName = None
    /\ versionTools = None
    /\ versionPending = NoCompletion
    /\ apiResults = <<>>
    /\ versionWarnings = <<>>

\* a new transformer and two documents for it; the constructor sets the
\* three fields to undefined
VersionStart ==
    /\ apiDocs \in ApiDocs \X ApiDocs
    /\ apiCall = 1
    /\ versionPc = "idle"
    /\ docsUrl = None
    /\ versionName = None
    /\ versionTools = None
    /\ versionPending = NoCompletion
    /\ apiResults = <<>>
    /\ versionWarnings = <<>>

\* transformApiDoc and transformVersions, and transformVersion up to the
\* try block.  Destructuring versions[-1] (undefined) is a TypeError, and
\* so is groupNameToUrlPath of a name which is no string
TransformApiDoc ==
    /\ versionPc = "idle"
    /\ apiCall \in 1..Len(apiDocs)
    /\ LET doc == apiDocs[apiCall]
       IN  IF doc.versions = None
             THEN /\ apiResults' = Append(apiResults, ApiThrew("TypeError"))
                  /\ apiCall' = apiCall + 1
                  /\ UNCHANGED <<versionPc, docsUrl, versionName,
                                 versionTools, versionWarnings>>
             ELSE LET versions == doc.versions[1]
                      version == versions[last(versions) + 1]
                      noVersion == last(versions) + 1 \notin DOMAIN versions
                  IN  /\ versionWarnings' =
                           IF Len(versions) > 1
                             THEN Append(versionWarnings,
                                         [call |-> apiCall,
                                          found |-> Len(versions)])
                             ELSE versionWarnings
                      /\ IF noVersion
                           THEN /\ apiResults' =
                                     Append(apiResults, ApiThrew("TypeError"))
                                /\ apiCall' = apiCall + 1
                                /\ UNCHANGED <<versionPc, docsUrl,
                                               versionName, versionTools>>
                         ELSE IF version.name = None
                           THEN /\ apiResults' =
                                     Append(apiResults, ApiThrew("TypeError"))
                                /\ apiCall' = apiCall + 1
                                /\ UNCHANGED <<versionPc, docsUrl,
                                               versionName, versionTools>>
                           ELSE /\ docsUrl' = Some(<<"https://developers.procore.com/reference/rest/v1/">>
                                      \o GroupNameToUrlPath(version.name[1]))
                                /\ versionName' = version.name
                                /\ versionTools' = version.tools
                                /\ versionPc' = "try"
                                /\ UNCHANGED <<apiResults, apiCall>>
    /\ UNCHANGED <<apiDocs, versionPending>>
    /\ UNCHANGED versionOthers

\* the try block: transformEndpoints runs with the three fields set, and
\* the block completes with the return value or with what was thrown
TransformVersionTry ==
    /\ versionPc = "try"
    /\ LET versions == apiDocs[apiCall].versions[1]
           version == versions[last(versions) + 1]
       IN  versionPending' =
             IF version.endpoints = "invalid" THEN ApiThrew("Error")
             ELSE ApiReturned(
                    [openapi |-> openapiVersion,
                     paths |-> TransformEndpointsResult(
                                 version.endpoints, docsUrl, versionName,
                                 versionTools)])
    /\ versionPc' = "finally"
    /\ UNCHANGED <<apiDocs, apiCall, docsUrl, versionName, versionTools,
                   apiResults, versionWarnings>>
    /\ UNCHANGED versionOthers

\* the finally block, then the completion reaches the caller of
\* transformApiDoc
TransformVersionFinally ==
    /\ versionPc = "finally"
    /\ LET after == AfterFinally(versionPending,
                                 [docsUrl |-> docsUrl,
                                  versionName |-> versionName,
                                  versionTools |-> versionTools])
       IN  /\ docsUrl' = after.docsUrl
           /\ versionName' = after.versionName
           /\ versionTools' = after.versionTools
    /\ apiResults' = Append(apiResults, versionPending)
    /\ versionPending' = NoCompletion
    /\ versionPc' = "idle"
    /\ apiCall' = apiCall + 1
    /\ UNCHANGED <<apiDocs, versionWarnings>>
    /\ UNCHANGED versionOthers

----------------------------------------------------------------------------
(* applyToPath(transform, obj, propPath, i)                                 *)
(*                                                                          *)
(* A JavaScript value is a record: kind is its type, text the characters    *)
(* of a string or the digits of a number, props the own enumerable          *)
(* properties of an object or the elements of an array (keyed by index),    *)
(* in property order.                                                       *)

\* the array indexes as property keys
IndexKeys == <<"0", "1", "2", "3", "4", "5", "6", "7">>

Undefined == [kind |-> "undefined", text |-> <<>>, props |-> <<>>]

Null == [kind |-> "null", text |-> <<>>, props |-> <<>>]

Num(digits) == [kind |-> "number", text |-> digits, props |-> <<>>]

Str(chars) == [kind |-> "string", text |-> chars, props |-> <<>>]

Bool(b) ==
    [kind |-> "boolean", text |-> IF b THEN <<"true">> ELSE <<"false">>,
     props |-> <<>>]

Prop(key, value) == [key |-> key, value |-> value]

Obj(props) == [kind |-> "object", text |-> <<>>, props |-> props]

Arr(items) ==
    [kind |-> "array", text |-> <<>>,
     props |-> [k \in 1..Len(items) |-> Prop(IndexKeys[k], items[k])]]

\* the number n as a value
NumOf(n) == Num(<<IndexKeys[n + 1]>>)

\* the length of an array or a string
LengthOf(obj) ==
    IF obj.kind = "string" THEN Len(obj.text) ELSE Len(obj.props)

\* the position in props of the property called key, 0 for none
PropIndex(obj, key) ==
    IF \E k \in 1..Len(obj.props) : obj.props[k].key = key
      THEN CHOOSE k \in 1..Len(obj.props) : obj.props[k].key = key
      ELSE 0

\* hasOwnProperty.call(obj, propName) for obj neither undefined nor null:
\* a primitive is converted to its wrapper object, which for a string has
\* the indexes and length
HasOwnProperty(obj, propName) ==
    IF obj.kind = "object" THEN PropIndex(obj, propName) # 0
    ELSE IF obj.kind = "array"
      THEN propName = "length" \/ PropIndex(obj, propName) # 0
    ELSE IF obj.kind = "string"
      THEN \/ propName = "length"
           \/ \E k \in 1..Len(obj.text) : IndexKeys[k] = propName
    ELSE FALSE

\* obj[propName] for an own property
GetProperty(obj, propName) ==
    IF obj.kind \in {"array", "string"} /\ propName = "length"
      THEN NumOf(LengthOf(obj))
    ELSE IF obj.kind = "string"
      THEN Str(<<obj.text[CHOOSE k \in 1..Len(obj.text) :
                            IndexKeys[k] = propName]>>)
    ELSE obj.props[PropIndex(obj, propName)].value

\* Array.isArray(obj) ? [...obj] : { ...obj }: the spread of a string in
\* an object literal has one property for each character
ShallowCopy(obj) ==
    IF obj.kind = "array" THEN obj
    ELSE IF obj.kind = "string"
      THEN Obj([k \in 1..Len(obj.text) |->
                  Prop(IndexKeys[k], Str(<<obj.text[k]>>))])
    ELSE Obj(obj.props)

\* newObj[propName] = value for the copy newObj: an existing property
\* keeps its place, a new one is added last; the length of an array can
\* be set to an array length only (a RangeError otherwise), which is its
\* own length for every value that can arrive here unchanged
SetProperty(newObj, propName, value) ==
    IF newObj.kind = "array" /\ propName = "length"
      THEN IF value = NumOf(LengthOf(newObj))
             THEN [error |-> None, obj |-> newObj]
             ELSE [error |-> Some("RangeError"), obj |-> newObj]
    ELSE IF PropIndex(newObj, propName) # 0
      THEN [error |-> None,
            obj |-> [newObj EXCEPT
                       !.props[PropIndex(newObj, propName)].value = value]]
    ELSE [error |-> None,
          obj |-> [newObj EXCEPT
                     !.props = Append(@, Prop(propName, value))]]

\* the transform functions: one returns its argument, one another value
Transforms == {"identity", "replace"}

Replacement == Str(<<"R">>)

\* transform.call(this, obj)
CallTransform(transform, obj) ==
    IF transform = "identity" THEN obj ELSE Replacement

ApplyReturned(value, warnings, calls) ==
    [status |-> "returned", value |-> Some(value), error |-> None,
     warnings |-> warnings, calls |-> calls]

ApplyThrew(e, warnings, calls) ==
    [status |-> "threw", value |-> None, error |-> Some(e),
     warnings |-> warnings, calls |-> calls]

RECURSIVE ApplyToPath(_, _, _, _)
\* applyToPath.call(this, transform, obj, propPath, i); visit() passes the
\* return value and the exception of the inner call on
ApplyToPath(transform, obj, path, i) ==
    IF i >= Len(path)
      THEN ApplyReturned(CallTransform(transform, obj), <<>>, <<obj>>)
    ELSE LET propName == path[i + 1]
         IN  IF obj.kind \in {"undefined", "null"}
               THEN ApplyThrew("TypeError", <<>>, <<>>)
             ELSE IF ~HasOwnProperty(obj, propName)
               THEN ApplyReturned(obj,
                                  <<[propName |-> propName, obj |-> obj]>>,
                                  <<>>)
             ELSE LET newObj == ShallowCopy(obj)
                      inner == ApplyToPath(transform,
                                           GetProperty(obj, propName),
                                           path, i + 1)
                  IN  IF inner.status = "threw" THEN inner
                      ELSE LET set == SetProperty(newObj, propName,
                                                  inner.value[1])
                           IN  IF set.error # None
                                 THEN ApplyThrew(set.error[1],
                                                 inner.warnings, inner.calls)
                                 ELSE ApplyReturned(set.obj, inner.warnings,
                                                    inner.calls)

\* property names of the paths
PropNames == {"a", "b", "0", "length"}

ApplyPaths == SeqsUpTo(PropNames, MaxPathLength)

ApplyTrees ==
    {Obj(<<Prop("a", Obj(<<Prop("b", NumOf(1))>>)),
           Prop("b", Arr(<<NumOf(1)>>))>>),
     Obj(<<Prop("a", Obj(<<Prop("a", Obj(<<Prop("a", NumOf(1))>>)),
                           Prop("b", Obj(<<>>))>>)),
           Prop("b", Obj(<<>>))>>),
     Obj(<<Prop("a", Arr(<<Arr(<<NumOf(1)>>),
                           Obj(<<Prop("b", Null)>>)>>))>>),
     Arr(<<Obj(<<Prop("a", NumOf(1))>>), Str(<<"x">>)>>),
     Obj(<<Prop("a", Undefined)>>),
     Obj(<<Prop("a", Null), Prop("b", NumOf(1))>>),
     Obj(<<Prop("a", Str(<<"x", "y">>))>>),
     Obj(<<Prop("a", NumOf(1))>>),
     Obj(<<>>),
     Undefined}

NoApplyResult ==
    [status |-> "none", value |-> None, error |-> None,
     warnings |-> <<>>, calls |-> <<>>]

ApplyIdle ==
    /\ applyTransform = "none"
    /\ applyObj = Undefined
    /\ applyPath = <<>>
    /\ applyResult = NoApplyResult

ApplyStart ==
    /\ applyTransform \in Transforms
    /\ applyObj \in ApplyTrees
    /\ applyPath \in ApplyPaths
    /\ applyResult = NoApplyResult

\* applyToPath.call(this, transform, obj, propPath, 0)
ApplyToPathCall ==
    /\ applyTransform # "none"
    /\ applyResult.status = "none"
    /\ applyResult' = ApplyToPath(applyTransform, applyObj, applyPath, 0)
    /\ UNCHANGED <<applyTransform, applyObj, applyPath>>
    /\ UNCHANGED applyOthers

----------------------------------------------------------------------------
(* The repair functions which DocBugsTransformer.transformOpenApi passes    *)
(* to applyToPath                                                           *)

\* obj.key, and key of a destructuring pattern, for obj neither undefined
\* nor null
Member(obj, key) ==
    IF HasOwnProperty(obj, key) THEN GetProperty(obj, key) ELSE Undefined

\* typeof value
TypeOf(value) ==
    IF value.kind \in {"null", "object", "array"} THEN "object"
    ELSE value.kind

\* Array.isArray(value)
IsArray(value) == value.kind = "array"

\* the value is not falsy
Truthy(value) ==
    /\ value.kind \notin {"undefined", "null"}
    /\ value # Bool(FALSE)
    /\ value # NumOf(0)
    /\ value # Str(<<>>)

\* const { key, ...rest } = obj: the rest
Without(obj, key) ==
    LET copy == ShallowCopy(obj)
        keep == {k \in 1..Len(copy.props) : copy.props[k].key # key}
        nth(n) == CHOOSE k \in keep :
                      Cardinality({j \in keep : j <= k}) = n
    IN  Obj([n \in 1..Cardinality(keep) |-> copy.props[nth(n)]])

\* { ...obj, key: value }, and newObj.key = value for an object newObj
WithProperty(obj, key, value) ==
    SetProperty(ShallowCopy(IF IsArray(obj) THEN Obj(obj.props) ELSE obj),
                key, value).obj

\* return node after this.warn(...)
Warned(node) ==
    [status |-> "returned", value |-> Some(node), error |-> None,
     warnings |-> 1]

\* return of a new node
Repaired(node) ==
    [status |-> "returned", value |-> Some(node), error |-> None,
     warnings |-> 0]

\* a TypeError from destructuring undefined or null
RepairThrew ==
    [status |-> "threw", value |-> None, error |-> Some("TypeError"),
     warnings |-> 0]

removeObjectItems(schema) ==
    IF schema.kind \in {"undefined", "null"} THEN RepairThrew
    ELSE LET type == Member(schema, "type")
             schemaProperties == Member(schema, "properties")
             items == Member(schema, "items")
         IN  IF \/ type # Str(<<"object">>)
                \/ TypeOf(items) # "object"
                \/ TypeOf(schemaProperties) # "object"
               THEN Warned(schema)
               ELSE Repaired(Without(schema, "items"))

removeRequestBody(operation) ==
    IF operation.kind \in {"undefined", "null"} THEN RepairThrew
    ELSE LET requestBody == Member(operation, "requestBody")
         IN  IF \/ requestBody = Null
                \/ TypeOf(requestBody) # "object"
                \/ IsArray(requestBody)
               THEN Warned(operation)
               ELSE Repaired(Without(operation, "requestBody"))

setAssignmentIdsSchema(schema) ==
    IF schema = Null \/ TypeOf(schema) # "object" THEN Warned(schema)
    ELSE IF Member(schema, "type") # Str(<<"array">>) THEN Warned(schema)
    ELSE Repaired(WithProperty(
           Without(schema, "type"), "oneOf",
           Arr(<<Obj(<<Prop("type", Str(<<"array">>)),
                       Prop("items",
                            Obj(<<Prop("type", Str(<<"integer">>))>>))>>),
                 Obj(<<Prop("const", Str(<<"none">>))>>)>>)))

setEnumType(schema) ==
    IF schema = Null \/ TypeOf(schema) # "object" \/ IsArray(schema)
      THEN Warned(schema)
    ELSE LET enumValues == Member(schema, "enum")
         IN  IF ~IsArray(enumValues) \/ LengthOf(enumValues) = 0
               THEN Warned(schema)
             ELSE IF \E k \in 1..LengthOf(enumValues) :
                       TypeOf(enumValues.props[k].value)
                         # TypeOf(enumValues.props[1].value)
               THEN Warned(schema)
             ELSE Repaired(WithProperty(
                    schema, "type",
                    Str(<<TypeOf(enumValues.props[1].value)>>)))

moveEnumToItem(schema) ==
    IF schema = Null \/ TypeOf(schema) # "object" \/ IsArray(schema)
      THEN Warned(schema)
    ELSE LET type == Member(schema, "type")
             items == Member(schema, "items")
         IN  IF \/ type # Str(<<"array">>)
                \/ items = Null
                \/ TypeOf(items) # "object"
               THEN Warned(schema)
             ELSE IF Member(items, "enum") # Undefined THEN Warned(schema)
             ELSE LET itemType == Member(items, "type")
                      enumValues == Member(schema, "enum")
                  IN  IF \/ ~IsArray(enumValues)
                         \/ LengthOf(enumValues) = 0
                         \/ \E k \in 1..LengthOf(enumValues) :
                              Str(<<TypeOf(enumValues.props[k].value)>>)
                                # itemType
                        THEN Warned(schema)
                        ELSE Repaired(WithProperty(
                               Without(schema, "enum"), "items",
                               WithProperty(items, "enum", enumValues)))

RECURSIVE isSuperset(_, _)
isSuperset(value1, value2) ==
    IF value2 = Undefined THEN TRUE
    ELSE IF \/ TypeOf(value1) # "object"
            \/ TypeOf(value2) # "object"
            \/ value1 = Null
            \/ value2 = Null
      THEN value1 = value2
    ELSE \A k \in 1..Len(value2.props) :
           isSuperset(Member(value1, value2.props[k].key),
                      value2.props[k].value)

\* `${paramIn}\0${name}` for a name which is a string
InName(paramIn, name) == <<paramIn.text, name.text>>

\* inNameToParam.get(inName)
inNameToParamGet(map, inName) ==
    IF \E k \in 1..Len(map) : map[k].key = inName
      THEN map[CHOOSE k \in 1..Len(map) : map[k].key = inName].value
      ELSE Undefined

\* inNameToParam.set(inName, parameter): a key keeps its place
inNameToParamSet(map, inName, parameter) ==
    IF \E k \in 1..Len(map) : map[k].key = inName
      THEN [k \in 1..Len(map) |->
              IF map[k].key = inName THEN Prop(inName, parameter)
              ELSE map[k]]
      ELSE Append(map, Prop(inName, parameter))

RECURSIVE DuplicatesLoop(_, _, _)
\* the loop of removeDuplicateParameters from element i (from 1) on, and
\* what follows it
DuplicatesLoop(params, i, inNameToParam) ==
    IF i > LengthOf(params)
      THEN IF Len(inNameToParam) = LengthOf(params)
             THEN Warned(params)
             ELSE Repaired(Arr([k \in 1..Len(inNameToParam) |->
                                  inNameToParam[k].value]))
    ELSE LET parameter == params.props[i].value
         IN  IF ~Truthy(parameter) THEN Warned(params)
             ELSE LET paramIn == Member(parameter, "in")
                      name == Member(parameter, "name")
                  IN  IF paramIn = Undefined THEN Warned(params)
                      ELSE IF \/ TypeOf(name) # "string"
                              \/ Len(name.text) = 0
                              \/ \E k \in 1..Len(name.text) :
                                   name.text[k] = "\\0"
                        THEN Warned(params)
                      ELSE LET inName == InName(paramIn, name)
                               prevParam == inNameToParamGet(inNameToParam, inName)
                               prevIsSuperset ==
                                   isSuperset(prevParam, parameter)
                               curIsSuperset ==
                                   isSuperset(parameter, prevParam)
                           IN  IF curIsSuperset /\ ~prevIsSuperset
                                 THEN DuplicatesLoop(
                                        params, i + 1,
                                        inNameToParamSet(inNameToParam, inName,
                                               parameter))
                               ELSE IF ~curIsSuperset /\ ~prevIsSuperset
                                 THEN Warned(params)
                               ELSE DuplicatesLoop(params, i + 1,
                                                   inNameToParam)

removeDuplicateParameters(params) ==
    IF ~IsArray(params) THEN Warned(params)
    ELSE DuplicatesLoop(params, 1, <<>>)

\* the three functions called changeTitle: the summary each expects, the
\* operationId and the summary it sets
ChangeTitles ==
    {[expect |-> <<"(Alpha) Delete Item's Attachments">>,
      operationId |-> <<"deleteItemAttachment">>,
      summary |-> <<"(Alpha) Delete Item Attachment">>],
     [expect |-> <<"(Internal) List Observation Items">>,
      operationId |-> <<"listProjectObservationItems">>,
      summary |-> <<"(Internal) List Project Observation Items">>],
     [expect |-> <<"Show RFI">>,
      operationId |-> <<"showProjectRfi">>,
      summary |-> <<"Show Project RFI">>]}

changeTitle(title, operation) ==
    IF \/ operation = Null
       \/ TypeOf(operation) # "object"
       \/ Member(operation, "summary") # Str(title.expect)
      THEN Warned(operation)
      ELSE Repaired(WithProperty(
             WithProperty(operation, "operationId", Str(title.operationId)),
             "summary", Str(title.summary)))

OnlyCurrentRevision == Str(<<"filters[only_current_revision]">>)

\* param && param.name === 'filters[only_current_revision]'
IsOnlyCurrentRevision(param) ==
    Truthy(param) /\ Member(param, "name") = OnlyCurrentRevision

\* the warning about count comes after the map, and newParameters is
\* returned with or without it
changeParameters(params) ==
    IF ~IsArray(params) THEN Warned(params)
    ELSE LET count == Cardinality({k \in 1..LengthOf(params) :
                        IsOnlyCurrentRevision(params.props[k].value)})
             newParameters ==
                 Arr([k \in 1..LengthOf(params) |->
                    IF IsOnlyCurrentRevision(params.props[k].value)
                      THEN WithProperty(
                             params.props[k].value, "schema",
                             Obj(<<Prop("type", Str(<<"boolean">>))>>))
                      ELSE params.props[k].value])
         IN  [Repaired(newParameters) EXCEPT
                !.warnings = IF count # 1 THEN 1 ELSE 0]

\* the functions, by name; a changeTitle comes with its strings
RepairFunctions ==
    [name : {"removeObjectItems", "removeRequestBody",
             "removeDuplicateParameters", "setEnumType", "moveEnumToItem",
             "setAssignmentIdsSchema", "changeParameters"},
     title : {<<>>}]
    \cup [name : {"changeTitle"}, title : {<<t>> : t \in ChangeTitles}]

\* transform.call(this, obj)
CallRepair(function, node) ==
    IF function.name = "removeObjectItems" THEN removeObjectItems(node)
    ELSE IF function.name = "removeRequestBody"
      THEN removeRequestBody(node)
    ELSE IF function.name = "removeDuplicateParameters"
      THEN removeDuplicateParameters(node)
    ELSE IF function.name = "setEnumType" THEN setEnumType(node)
    ELSE IF function.name = "moveEnumToItem" THEN moveEnumToItem(node)
    ELSE IF function.name = "setAssignmentIdsSchema"
      THEN setAssignmentIdsSchema(node)
    ELSE IF function.name = "changeParameters" THEN changeParameters(node)
    ELSE changeTitle(function.title[1], node)

StringSchema == Obj(<<Prop("type", Str(<<"string">>))>>)

Schemas ==
    {Obj(<<Prop("type", Str(<<"object">>)), Prop("items", StringSchema),
           Prop("properties", Obj(<<>>))>>),
     Obj(<<Prop("type", Str(<<"object">>)),
           Prop("properties", Obj(<<>>))>>),
     Obj(<<Prop("type", Str(<<"array">>))>>),
     Obj(<<Prop("type", Str(<<"array">>)), Prop("items", StringSchema),
           Prop("enum", Arr(<<Str(<<"a">>), Str(<<"b">>)>>))>>),
     Obj(<<Prop("type", Str(<<"array">>)), Prop("items", StringSchema),
           Prop("enum", Arr(<<Str(<<"a">>), NumOf(1)>>))>>),
     Obj(<<Prop("enum", Arr(<<>>))>>),
     Obj(<<Prop("type", Str(<<"array">>)),
           Prop("items", WithProperty(StringSchema, "enum",
                                      Arr(<<Str(<<"a">>)>>))),
           Prop("enum", Arr(<<Str(<<"a">>)>>))>>)}

Operations ==
    {Obj(<<Prop("summary", Str(<<"(Alpha) Delete Item's Attachments">>)),
           Prop("requestBody", Obj(<<>>))>>),
     Obj(<<Prop("summary", Str(<<"(Internal) List Observation Items">>)),
           Prop("requestBody", Null)>>),
     Obj(<<Prop("summary", Str(<<"Show RFI">>)),
           Prop("requestBody", Arr(<<>>))>>),
     Obj(<<Prop("summary", Str(<<"List RFIs">>))>>)}

IdParam == Obj(<<Prop("in", Str(<<"query">>)), Prop("name", Str(<<"id">>))>>)

IdParamDescribed == WithProperty(IdParam, "description", Str(<<"The id">>))

IdParamRequired == WithProperty(IdParam, "required", Bool(TRUE))

RevisionParam(paramIn) ==
    Obj(<<Prop("in", Str(<<paramIn>>)), Prop("name", OnlyCurrentRevision),
          Prop("schema", StringSchema)>>)

ParameterArrays ==
    {Arr(<<IdParam, IdParamDescribed>>),
     Arr(<<IdParamDescribed, IdParam>>),
     Arr(<<IdParam, IdParam>>),
     Arr(<<IdParamDescribed, IdParamRequired>>),
     Arr(<<IdParam, RevisionParam("query")>>),
     Arr(<<RevisionParam("query"), RevisionParam("path")>>),
     Arr(<<IdParam, RevisionParam("query"), IdParam>>),
     Arr(<<>>),
     Arr(<<IdParam, Null>>),
     Arr(<<Obj(<<Prop("name", Str(<<"id">>))>>)>>),
     Arr(<<Obj(<<Prop("in", Str(<<"query">>)), Prop("name", NumOf(1))>>)>>)}

\* the nodes a path of the fix-ups can lead to
RepairNodes ==
    {Undefined, Null, NumOf(1), Str(<<"x">>)}
    \cup Schemas \cup Operations \cup ParameterArrays

NoRepairResult ==
    [status |-> "none", value |-> None, error |-> None, warnings |-> 0]

RepairIdle ==
    /\ repairFunction = [name |-> "none", title |-> <<>>]
    /\ repairNode = Undefined
    /\ repairResult = NoRepairResult

RepairStart ==
    /\ repairFunction \in RepairFunctions
    /\ repairNode \in RepairNodes
    /\ repairResult = NoRepairResult

\* applyToPath has reached the end of the path: transform.call(this, obj)
RepairCall ==
    /\ repairFunction.name # "none"
    /\ repairResult.status = "none"
    /\ repairResult' = CallRepair(repairFunction, repairNode)
    /\ UNCHANGED <<repairFunction, repairNode>>
    /\ UNCHANGED repairOthers

----------------------------------------------------------------------------
(* FormatFromContextTransformer.transformSchemaWithContext(schema, name,    *)
(* parameter).  A description is a string of words, an example a string of  *)
(* chunks; a regular expression is tested on the words and chunks.          *)

\* String.prototype.toLowerCase, and the i flag, on the words which have
\* an upper case letter
LowerCased ==
    [w \in {"Date", "DATETIME", "Email_Address", "URL", "YYYY-MM-DD",
            "Datetime", "UUID", "Email", "Price", "Rich"} |->
       CASE w = "Date" -> "date"
         [] w = "DATETIME" -> "datetime"
         [] w = "Email_Address" -> "email_address"
         [] w = "URL" -> "url"
         [] w = "YYYY-MM-DD" -> "yyyy-mm-dd"
         [] w = "Datetime" -> "datetime"
         [] w = "UUID" -> "uuid"
         [] w = "Email" -> "email"
         [] w = "Price" -> "price"
         [] w = "Rich" -> "rich"]

toLowerCase(w) == IF w \in DOMAIN LowerCased THEN LowerCased[w] ELSE w

\* switch (name.toLowerCase())
FormatFromName(name) ==
    LET lower == toLowerCase(name)
    IN  IF lower = "date" THEN Some("date")
        ELSE IF lower = "datetime" THEN Some("date-time")
        ELSE IF lower \in {"email", "email_address", "inbound_email"}
          THEN Some("email")
        ELSE IF lower = "email_signature" THEN Some("html")
        ELSE IF lower \in {"uri", "url"} THEN Some("uri")
        ELSE IF lower = "xml" THEN Some("xml")
        ELSE None

\* /\bword\b/i.test(description)
HasWord(description, words) ==
    \E k \in 1..Len(description.text) :
       toLowerCase(description.text[k]) \in words

\* /\bfirst second/i.test(description), second a set of words which begin
\* with the second word
HasPhrase(description, first, second) ==
    \E k \in 1..(Len(description.text) - 1) :
       /\ toLowerCase(description.text[k]) = first
       /\ toLowerCase(description.text[k + 1]) \in second

\* the if chain on one description; 'datetime range' ends the chain
\* without a format
FormatFromDescription(description) ==
    IF ~(Truthy(description) /\ TypeOf(description) = "string") THEN None
    ELSE IF HasWord(description, {"yyyy-mm-dd"}) THEN Some("date")
    ELSE IF HasPhrase(description, "datetime", {"range", "ranges"})
      THEN None
    ELSE IF HasWord(description, {"datetime"}) THEN Some("date-time")
    ELSE IF HasWord(description, {"uuid"}) THEN Some("uuid")
    ELSE IF HasWord(description, {"uri", "url"}) THEN Some("uri")
    ELSE IF HasWord(description, {"email"}) THEN Some("email")
    ELSE IF HasWord(description, {"cost", "money", "price"})
      THEN Some("decimal")
    ELSE IF HasPhrase(description, "rich", {"text"}) THEN Some("html")
    ELSE None

\* the chunks of digits and of hexadecimal digits, with their lengths
DigitChunks == [c \in {"2021", "01", "30", "9"} |->
                  IF c = "2021" THEN 4 ELSE IF c = "9" THEN 1 ELSE 2]

HexChunks == [c \in {"deadbeef", "2021", "beef", "0123456789ab"} |->
                IF c = "deadbeef" THEN 8
                ELSE IF c = "0123456789ab" THEN 12 ELSE 4]

\* [0-9]{n}
IsDigits(c, n) == c \in DOMAIN DigitChunks /\ DigitChunks[c] = n

\* [A-Fa-f0-9]{n}
IsHex(c, n) == c \in DOMAIN HexChunks /\ HexChunks[c] = n

\* [A-Za-z0-9.-]+
IsHostChars(c) ==
    c \in DOMAIN DigitChunks \cup DOMAIN HexChunks
            \cup {"user", "example.com", "-"}

\* each chunk of s is in the class at its place in classes
Matches(s, classes) ==
    /\ Len(s) = Len(classes)
    /\ \A k \in 1..Len(s) : classes[k][s[k]]

\* the chunks of the examples
ExampleChunks ==
    DOMAIN DigitChunks \cup DOMAIN HexChunks
      \cup {"-", ":", "T", " ", "Z", "AM", "PM", "http:", "https:", "//",
             "user", "example.com", "@", "<b>", "<p>"}

\* the chunk classes as functions of the chunk
D(n) == [c \in ExampleChunks |-> IsDigits(c, n)]

H(n) == [c \in ExampleChunks |-> IsHex(c, n)]

Lit(chars) == [c \in ExampleChunks |-> c \in chars]

\* the if chain on one example
FormatFromExample(example) ==
    IF ~(Truthy(example) /\ TypeOf(example) = "string") THEN None
    ELSE LET s == example.text
             date == <<D(4), Lit({"-"}), D(2), Lit({"-"}), D(2)>>
             clock == <<D(2), Lit({":"}), D(2), Lit({":"}), D(2),
                        Lit({"Z"})>>
             hour == [c \in ExampleChunks |->
                        IsDigits(c, 1) \/ IsDigits(c, 2)]
         IN  IF Matches(s, date) THEN Some("date")
             ELSE IF Matches(s, date \o <<Lit({"T", " "})>> \o clock)
               THEN Some("date-time")
             ELSE IF \/ Matches(s, <<hour, Lit({":"}), D(2)>>)
                     \/ Matches(s, <<hour, Lit({":"}), D(2), Lit({" "}),
                                     Lit({"AM", "PM"})>>)
               THEN Some("time")
             ELSE IF Matches(s, <<H(8), Lit({"-"}), H(4), Lit({"-"}), H(4),
                                  Lit({"-"}), H(4), Lit({"-"}), H(12)>>)
               THEN Some("uuid")
             ELSE IF s # <<>> /\ s[1] \in {"http:", "https:"}
               THEN Some("uri")
             ELSE IF \E at \in 2..(Len(s) - 1) :
                       /\ s[at] = "@"
                       /\ \A k \in 1..Len(s) :
                            k # at => IsHostChars(s[k])
               THEN Some("email")
             ELSE IF \E k \in 1..Len(s) : s[k] \in {"<b>", "<p>"}
               THEN Some("html")
             ELSE None

\* the first of the formats which is one
FirstFormat(formats) ==
    IF \E k \in 1..Len(formats) : formats[k] # None
      THEN formats[CHOOSE k \in 1..Len(formats) :
                     /\ formats[k] # None
                     /\ \A j \in 1..(k - 1) : formats[j] = None]
      ELSE None

\* parameter && parameter.key
ParameterMember(parameter, key) ==
    IF Truthy(parameter) THEN Member(parameter, key) ELSE parameter

\* an inference which looks at the examples before the descriptions
InferFormatExamplesFirst(schema, name, parameter) ==
    FirstFormat(<<
        FormatFromName(name),
        FormatFromExample(Member(schema, "example")),
        FormatFromExample(ParameterMember(parameter, "example")),
        FormatFromDescription(Member(schema, "description")),
        FormatFromDescription(ParameterMember(parameter, "description"))>>)

\* the switch and the two loops, each under if (format === undefined)
InferFormat(schema, name, parameter) ==
    FirstFormat(<<
        FormatFromName(name),
        FormatFromDescription(Member(schema, "description")),
        FormatFromDescription(ParameterMember(parameter, "description")),
        FormatFromExample(Member(schema, "example")),
        FormatFromExample(ParameterMember(parameter, "example"))>>)

\* a test which lets a schema with a format through
SkipsSchemaAnyFormat(schema) ==
    \/ ~Truthy(schema)
    \/ Member(schema, "type") # Str(<<"string">>)

\* !schema || schema.type !== 'string' || schema.format !== undefined
SkipsSchema(schema) ==
    \/ ~Truthy(schema)
    \/ Member(schema, "type") # Str(<<"string">>)
    \/ Member(schema, "format") # Undefined

\* transformSchemaWithContext; super.transformSchema returns a schema
\* without subschemas as it is
transformSchemaWithContext(schema, name, parameter) ==
    IF SkipsSchema(schema) THEN schema
    ELSE LET inferred == InferFormat(schema, name, parameter)
         IN  IF inferred = None THEN schema
             ELSE WithProperty(schema, "format", Str(<<inferred[1]>>))

FormatNames ==
    {"Date", "DATETIME", "Email_Address", "email_signature", "URL", "xml",
     "status"}

FormatDescriptions ==
    {Undefined, Str(<<>>), NumOf(1),
     Str(<<"in", "YYYY-MM-DD", "format">>),
     Str(<<"Datetime", "range", "UUID">>),
     Str(<<"a", "datetime">>),
     Str(<<"Email", "URL">>),
     Str(<<"Price">>),
     Str(<<"Rich", "text">>),
     Str(<<"text">>)}

FormatExamples ==
    {Undefined, NumOf(1),
     Str(<<"2021", "-", "01", "-", "30">>),
     Str(<<"2021", "-", "01", "-", "30", "T", "01", ":", "30", ":", "30",
           "Z">>),
     Str(<<"9", ":", "30", " ", "PM">>),
     Str(<<"deadbeef", "-", "beef", "-", "2021", "-", "beef", "-",
           "0123456789ab">>),
     Str(<<"https:", "//", "example.com">>),
     Str(<<"user", "@", "example.com">>),
     Str(<<"<b>", "user">>),
     Str(<<"user">>)}

\* a schema object with the given members; an undefined one is absent
SchemaWith(type, format, description, example) ==
    LET all == <<Prop("type", type), Prop("format", format),
                 Prop("description", description),
                 Prop("example", example)>>
    IN  Without(Without(Without(
          Obj(all),
          IF format = Undefined THEN "format" ELSE ""),
          IF description = Undefined THEN "description" ELSE ""),
          IF example = Undefined THEN "example" ELSE "")

FormatSchemas ==
    {SchemaWith(Str(<<type>>), format, description, example) :
       type \in {"string", "integer"},
       format \in {Undefined, Str(<<"byte">>)},
       description \in FormatDescriptions,
       example \in FormatExamples}

FormatParameters ==
    {Undefined}
    \cup {Obj(<<Prop("description", description),
                Prop("example", example)>>) :
            description \in {Undefined, Str(<<"Datetime", "range", "UUID">>),
                             Str(<<"Price">>)},
            example \in {Undefined, Str(<<"9", ":", "30", " ", "PM">>),
                         Str(<<"user", "@", "example.com">>)}}

FormatIdle ==
    /\ formatSchema = Undefined
    /\ formatName = ""
    /\ formatParameter = Undefined
    /\ formatResults = <<>>

FormatStart ==
    /\ formatSchema \in FormatSchemas
    /\ formatName \in FormatNames
    /\ formatParameter \in FormatParameters
    /\ formatResults = <<>>

\* the pass on the schema
FormatFirstPass ==
    /\ formatSchema # Undefined
    /\ formatResults = <<>>
    /\ formatResults' =
         <<transformSchemaWithContext(formatSchema, formatName,
                                      formatParameter)>>
    /\ UNCHANGED <<formatSchema, formatName, formatParameter>>
    /\ UNCHANGED formatOthers

\* the pass on the result of the first one, in the same place
FormatSecondPass ==
    /\ Len(formatResults) = 1
    /\ formatResults' =
         Append(formatResults,
                transformSchemaWithContext(formatResults[1], formatName,
                                           formatParameter))
    /\ UNCHANGED <<formatSchema, formatName, formatParameter>>
    /\ UNCHANGED formatOthers

----------------------------------------------------------------------------
(* DeprecatedTransformer.transformSchema(schema).  A description is a       *)
(* string of chunks: fixed pieces of text and field names; a regular        *)
(* expression is a sequence of sets of chunks, \S+ the set of field names.  *)

FieldNames == {"status", "state", "old_id"}

\* five of the deprecationRegexps, in the order of the source: the sets
\* of chunks, the places of the named groups (0 for a group the regular
\* expression does not have) and whether it ends with $
deprecationRegexps ==
    <<[chunks |-> <<{":"}, FieldNames, {" to be deprecated, use :"},
                    FieldNames>>,
       deprecated |-> 2, replacement |-> 4, atEnd |-> FALSE],
      [chunks |-> <<{" (this property is deprecated - see "}, FieldNames,
                    {")"}>>,
       deprecated |-> 0, replacement |-> 2, atEnd |-> FALSE],
      [chunks |-> <<{"DEPRECATED."}, {" Please use "}, FieldNames,
                    {" instead"}>>,
       deprecated |-> 0, replacement |-> 3, atEnd |-> FALSE],
      [chunks |-> <<{"DEPRECATED."}>>,
       deprecated |-> 0, replacement |-> 0, atEnd |-> FALSE],
      [chunks |-> <<{" (deprecated)"}>>,
       deprecated |-> 0, replacement |-> 0, atEnd |-> TRUE]>>

\* /Use :(\S+), :(\S+) to be deprecated/, the first group in `deprecated`
deprecatedYXRegexp ==
    [chunks |-> <<{"Use :"}, FieldNames, {", :"}, FieldNames,
                  {" to be deprecated"}>>,
     deprecated |-> 2, replacement |-> 0, atEnd |-> FALSE]

\* the chunks in which /deprecat(?:e|ed|ion)/i matches
DeprecationChunks ==
    {" to be deprecated, use :", " (this property is deprecated - see ",
     "DEPRECATED.", " (deprecated)", " to be deprecated",
     "Deprecation pending."}

\* the regular expression matches the chunks of s from index i on
MatchesAt(s, regexp, i) ==
    /\ i + Len(regexp.chunks) - 1 <= Len(s)
    /\ regexp.atEnd => i + Len(regexp.chunks) - 1 = Len(s)
    /\ \A k \in 1..Len(regexp.chunks) : s[i + k - 1] \in regexp.chunks[k]

\* string.match(regexp): null (None) or the leftmost match with its
\* index, its length and its groups, undefined (None) for a group which
\* is not there
StringMatch(s, regexp) ==
    IF \E i \in 1..Len(s) : MatchesAt(s, regexp, i)
      THEN LET i == CHOOSE i \in 1..Len(s) :
                      /\ MatchesAt(s, regexp, i)
                      /\ \A j \in 1..(i - 1) : ~MatchesAt(s, regexp, j)
               group(at) == IF at = 0 THEN None ELSE Some(s[i + at - 1])
           IN  Some([index |-> i, length |-> Len(regexp.chunks),
                     deprecated |-> group(regexp.deprecated),
                     replacement |-> group(regexp.replacement)])
      ELSE None

\* string.slice(0, match.index)
\*   + string.slice(match.index + match[0].length)
removeMatch(s, match) ==
    SubSeq(s, 1, match.index - 1)
      \o SubSeq(s, match.index + match.length, Len(s))

\* a loop which goes through all regular expressions and keeps the last
\* match
LastMatch(description) ==
    LET matching == {k \in 1..Len(deprecationRegexps) :
                       StringMatch(description, deprecationRegexps[k])
                         # None}
    IN  IF matching = {} THEN None
        ELSE StringMatch(description,
                         deprecationRegexps[
                           CHOOSE k \in matching :
                             \A j \in matching : j <= k])

\* the loop over the regular expressions, with its break
FirstMatch(description) ==
    LET matching == {k \in 1..Len(deprecationRegexps) :
                       StringMatch(description, deprecationRegexps[k])
                         # None}
    IN  IF matching = {} THEN None
        ELSE StringMatch(description,
                         deprecationRegexps[
                           CHOOSE k \in matching :
                             \A j \in matching : k <= j])

\* transformPath[length - 2] === 'properties' ? transformPath[length - 1]
\* : undefined
PropertyNameOf(path) ==
    IF Len(path) >= 2 /\ path[Len(path) - 1] = "properties"
      THEN Some(path[Len(path)])
      ELSE None

\* a test which marks the schema whatever field the notice names
MarksAnyField(deprecatedName, propertyName) == TRUE

\* deprecatedName === propertyName || deprecatedName === undefined
MarksThisSchema(deprecatedName, propertyName) ==
    deprecatedName = propertyName \/ deprecatedName = None

\* (schema.properties && schema.properties[deprecatedName])
\* || (schema.items && schema.items.properties
\*     && schema.items.properties[deprecatedName])
HasPropertyNamed(schema, deprecatedName) ==
    LET ownProperties == Member(schema, "properties")
        items == Member(schema, "items")
        itemProperties == IF Truthy(items) THEN Member(items, "properties")
                          ELSE Undefined
    IN  \/ /\ Truthy(ownProperties)
           /\ Truthy(Member(ownProperties, deprecatedName))
        \/ /\ Truthy(itemProperties)
           /\ Truthy(Member(itemProperties, deprecatedName))

\* the second step, on the notice of the recommended replacement
RemoveUseNotice(description, propertyName) ==
    LET deprecatedYX == StringMatch(description, deprecatedYXRegexp)
    IN  IF deprecatedYX = None
          THEN [description |-> description, warnings |-> <<>>]
        ELSE IF deprecatedYX[1].deprecated = propertyName
          THEN [description |-> removeMatch(description, deprecatedYX[1]),
                warnings |-> <<>>]
        ELSE [description |-> description, warnings |-> <<"useNotice">>]

\* DeprecatedTransformer.transformSchema for a schema whose subschemas
\* super.transformSchema leaves as they are
DeprecatedTransformSchema(schema, path) ==
    LET origDescription == Member(schema, "description")
        unchanged(warnings) == [schema |-> schema, warnings |-> warnings]
    IN  IF \/ TypeOf(origDescription) # "string"
           \/ ~\E k \in 1..Len(origDescription.text) :
                 origDescription.text[k] \in DeprecationChunks
          THEN unchanged(<<>>)
        ELSE
          LET propertyName == PropertyNameOf(path)
              match == FirstMatch(origDescription.text)
              deprecatedName == IF match = None THEN None
                                ELSE match[1].deprecated
              replacementName == IF match = None THEN None
                                 ELSE match[1].replacement
              marks == /\ match # None
                       /\ MarksThisSchema(deprecatedName, propertyName)
              removes == /\ match # None
                         /\ \/ marks
                            \/ HasPropertyNamed(schema, deprecatedName[1])
              first == IF removes
                         THEN removeMatch(origDescription.text, match[1])
                         ELSE origDescription.text
              firstWarnings == IF match # None /\ ~removes
                                 THEN <<"notice">> ELSE <<>>
              second == RemoveUseNotice(first, propertyName)
              description == second.description
              warnings == firstWarnings \o second.warnings
              described == WithProperty(schema, "description",
                             IF description = <<>> THEN Undefined
                             ELSE Str(description))
          IN  IF description = origDescription.text
                THEN unchanged(Append(warnings, "unable"))
              ELSE IF marks
                THEN [schema |->
                        WithProperty(
                          WithProperty(described, "deprecated", Bool(TRUE)),
                          "x-deprecated",
                          Obj(<<Prop("replaced-by",
                                     IF replacementName = None
                                       THEN Undefined
                                       ELSE Str(replacementName))>>)),
                      warnings |-> warnings]
              ELSE [schema |-> described, warnings |-> warnings]

\* the pieces of text which the descriptions are made of
DescriptionPieces ==
    {<<":", "status", " to be deprecated, use :", "state">>,
     <<":", "old_id", " to be deprecated, use :", "state">>,
     <<" (this property is deprecated - see ", "state", ")">>,
     <<"DEPRECATED.", " Please use ", "state", " instead">>,
     <<"DEPRECATED.">>,
     <<" (deprecated)">>,
     <<"Use :", "status", ", :", "old_id", " to be deprecated">>,
     <<"Use :", "state", ", :", "status", " to be deprecated">>,
     <<"The current state.">>,
     <<"Deprecation pending.">>}

RECURSIVE Flatten(_)
Flatten(pieces) ==
    IF pieces = <<>> THEN <<>> ELSE Head(pieces) \o Flatten(Tail(pieces))

DeprecatedDescriptions ==
    {Undefined}
    \cup {Str(Flatten(pieces)) :
            pieces \in SeqsUpTo(DescriptionPieces, MaxPieces)}

\* a schema with the description: a string schema, an object schema with
\* the property old_id, an array schema whose items have it
DeprecatedSchemas ==
    LET with(props, description) ==
            IF description = Undefined THEN Obj(props)
            ELSE Obj(Append(props, Prop("description", description)))
        oldId == Obj(<<Prop("old_id", StringSchema)>>)
    IN  UNION {
          {with(<<Prop("type", Str(<<"string">>))>>, d),
           with(<<Prop("type", Str(<<"object">>)),
                  Prop("properties", oldId)>>, d),
           with(<<Prop("type", Str(<<"array">>)),
                  Prop("items", Obj(<<Prop("properties", oldId)>>))>>, d)} :
          d \in DeprecatedDescriptions}

DeprecatedPaths ==
    {<<"schema">>, <<"properties", "status">>, <<"properties", "state">>}

NoDeprecatedResult == [schema |-> Undefined, warnings |-> <<"none">>]

DeprecatedIdle ==
    /\ deprecatedSchema = Undefined
    /\ deprecatedPath = <<>>
    /\ deprecatedResult = NoDeprecatedResult

DeprecatedStart ==
    /\ deprecatedSchema \in DeprecatedSchemas
    /\ deprecatedPath \in DeprecatedPaths
    /\ deprecatedResult = NoDeprecatedResult

\* visit(transformer, transformer.transformSchema, ..., schema)
DeprecatedCall ==
    /\ deprecatedPath # <<>>
    /\ deprecatedResult = NoDeprecatedResult
    /\ deprecatedResult' =
         DeprecatedTransformSchema(deprecatedSchema, deprecatedPath)
    /\ UNCHANGED <<deprecatedSchema, deprecatedPath>>
    /\ UNCHANGED deprecatedOthers

----------------------------------------------------------------------------
(* MultipartTransformer.transformRequestBody(requestBody).  A description   *)
(* is a string of chunks; a suffix of the catalogue is a sequence of        *)
(* chunks.                                                                  *)

NoteFile ==
    " Note that it's only possible to post a\n  file using a multipart/form-data body (see RFC 2388). Most HTTP\n  libraries will do the right thing when you pass in an open file or\n  IO stream."

\* (the backquotes of the source are written as ')
MustUpload ==
    " you must upload the entire payload as 'multipart/form-data' content-type"

ToUploadAttachments ==
    "\nTo upload attachments you must upload the entire payload as 'multipart/form-data' content-type and\nspecify each parameter as form-data together with 'attachments[]' as files."

\* four of the multipartDescriptionSuffixes, in the order of the source
\* (lines 211, 218, 227 and 232): the last is "\n" followed by the third
multipartDescriptionSuffixes ==
    <<  <<NoteFile>>, <<MustUpload>>, <<ToUploadAttachments>>,
        <<"\n", ToUploadAttachments>>  >>

\* the chunks which include 'multipart/form-data'
MultipartChunks ==
    {NoteFile, MustUpload, ToUploadAttachments,
     "Sent as multipart/form-data."}

\* description.endsWith(suffix)
EndsWith(description, suffix) ==
    /\ Len(suffix) <= Len(description)
    /\ SubSeq(description, Len(description) - Len(suffix) + 1,
              Len(description)) = suffix

\* removeMultipartDescriptionSuffix(description) for the chunks of a string:
\* the first suffix of the list with which the description ends is sliced
\* off
removeMultipartDescriptionSuffix(description) ==
    LET found == {k \in 1..Len(multipartDescriptionSuffixes) :
                    EndsWith(description, multipartDescriptionSuffixes[k])}
        first == CHOOSE k \in found : \A j \in found : k <= j
    IN  IF found = {} THEN description
        ELSE SubSeq(description, 1,
                    Len(description)
                      - Len(multipartDescriptionSuffixes[first]))

attachmentItemPropNameSet ==
    {"attachment_item", "attachments_to_upload_item", "file_item",
     "image_item"}

\* value is an object other than null (typeof value === 'object')
IsObjectValue(value) == value.kind \in {"object", "array"}

isMultipartArraySchema(schema) ==
    LET items == Member(schema, "items")
        itemProps == Member(items, "properties")
        itemProp == itemProps.props[1].value
    IN  /\ Member(schema, "type") = Str(<<"array">>)
        /\ IsObjectValue(items)
        /\ Member(items, "type") = Str(<<"object">>)
        /\ IsObjectValue(itemProps)
        /\ Len(itemProps.props) = 1
        /\ itemProps.props[1].key \in attachmentItemPropNameSet
        /\ IsObjectValue(itemProp)
        /\ Member(itemProp, "type") = Str(<<"string">>)

\* description.includes('multipart/form-data') for a string
IncludesMultipart(description) ==
    \E k \in 1..Len(description.text) :
        description.text[k] \in MultipartChunks

\* collectMultipartProperties(schema, multipart, propPath): the paths it
\* pushes to multipart, in order
RECURSIVE collectMultipartProperties(_, _)
RECURSIVE CollectFrom(_, _, _)
CollectFrom(schemaProperties, propPath, k) ==
    IF k > Len(schemaProperties.props) THEN <<>>
    ELSE LET propName == schemaProperties.props[k].key
             propSchema == schemaProperties.props[k].value
             here == propPath \o <<"properties", propName>>
             description == IF propSchema.kind \in {"object", "array"}
                              THEN Member(propSchema, "description")
                              ELSE Undefined
             pushed ==
               IF ~Truthy(propSchema) THEN <<>>
               ELSE IF /\ description.kind = "string"
                       /\ IncludesMultipart(description)
                 THEN <<here>>
               ELSE collectMultipartProperties(propSchema, here)
         IN  pushed \o CollectFrom(schemaProperties, propPath, k + 1)

collectMultipartProperties(schema, propPath) ==
    IF ~Truthy(schema) THEN <<>>
    ELSE IF schema.kind \notin {"object", "array"} THEN <<>>
    ELSE IF ~Truthy(Member(schema, "properties")) THEN <<>>
    ELSE IF Member(schema, "properties").kind \notin {"object", "array"}
      THEN <<>>
    ELSE CollectFrom(Member(schema, "properties"), propPath, 1)

\* get(schema, path) of json-ptr for a path which is in the schema
RECURSIVE GetAtPath(_, _)
GetAtPath(value, path) ==
    IF path = <<>> THEN value
    ELSE GetAtPath(Member(value, Head(path)), Tail(path))

\* setValueAtPath(target, value, path) of json-ptr for a path which is in
\* the target: the target after the assignment
RECURSIVE SetAtPath(_, _, _)
SetAtPath(target, value, path) ==
    IF path = <<>> THEN value
    ELSE SetProperty(target, Head(path),
                     SetAtPath(Member(target, Head(path)), value,
                               Tail(path))).obj

\* JSON.parse(JSON.stringify(value)): a copy without the properties which
\* are undefined
RECURSIVE JsonCopy(_)
JsonCopy(value) ==
    IF value.kind = "object"
      THEN LET keep == {k \in 1..Len(value.props) :
                          value.props[k].value.kind # "undefined"}
               nth(n) == CHOOSE k \in keep :
                           Cardinality({j \in keep : j <= k}) = n
           IN  Obj([n \in 1..Cardinality(keep) |->
                      Prop(value.props[nth(n)].key,
                           JsonCopy(value.props[nth(n)].value))])
    ELSE IF value.kind = "array"
      THEN [value EXCEPT
              !.props = [k \in 1..Len(value.props) |->
                           Prop(value.props[k].key,
                                IF value.props[k].value.kind = "undefined"
                                  THEN Null
                                  ELSE JsonCopy(value.props[k].value))]]
    ELSE value

BinaryItems ==
    Obj(<<Prop("type", Str(<<"string">>)),
          Prop("format", Str(<<"binary">>))>>)

\* the description without its suffix, for the description of a collected
\* schema, which is a string
WithoutSuffix(multipartSchema) ==
    Str(removeMultipartDescriptionSuffix(
          Member(multipartSchema, "description").text))

\* the loop over multipartPropPaths from the k-th path on: schemaMulti and
\* the number of warnings
RECURSIVE ConvertPaths(_, _, _, _)
ConvertPaths(schema, schemaMulti, multipartPropPaths, k) ==
    IF k > Len(multipartPropPaths)
      THEN [schemaMulti |-> schemaMulti, warnings |-> 0]
    ELSE LET multipartPropPath == multipartPropPaths[k]
             multipartSchema == GetAtPath(schema, multipartPropPath)
             type == Member(multipartSchema, "type")
             rest(newMulti) ==
               ConvertPaths(schema, newMulti, multipartPropPaths, k + 1)
         IN  IF type = Str(<<"string">>)
               THEN rest(SetAtPath(
                      schemaMulti,
                      WithProperty(
                        WithProperty(multipartSchema, "description",
                                     WithoutSuffix(multipartSchema)),
                        "format", Str(<<"binary">>)),
                      multipartPropPath))
             ELSE IF \/ isMultipartArraySchema(multipartSchema)
                     \/ /\ type = Str(<<"array">>)
                        /\ multipartPropPath[2] = "generic_tool_item"
               THEN rest(SetAtPath(
                      schemaMulti,
                      WithProperty(
                        WithProperty(multipartSchema, "description",
                                     WithoutSuffix(multipartSchema)),
                        "items", BinaryItems),
                      multipartPropPath))
             ELSE [rest(schemaMulti) EXCEPT !.warnings = @ + 1]

\* the cases of the switch with the array among them
PrimitiveTypesAndArray ==
    {Str(<<t>>) :
       t \in {"array", "boolean", "integer", "null", "number", "string"}}

\* the cases of the switch on propValue.type which add no encoding
PrimitiveTypes ==
    {Str(<<t>>) : t \in {"boolean", "integer", "null", "number", "string"}}

DeepObject ==
    Obj(<<Prop("deepObject", Bool(TRUE)), Prop("explode", Bool(TRUE))>>)

\* the encoding object after the loop over Object.entries(schema.properties)
\* from the k-th entry on
RECURSIVE EncodingFrom(_, _, _)
EncodingFrom(schemaProperties, encoding, k) ==
    IF k > Len(schemaProperties.props) THEN encoding
    ELSE LET propName == schemaProperties.props[k].key
             propValue == schemaProperties.props[k].value
         IN  EncodingFrom(
               schemaProperties,
               IF Member(propValue, "type") \in PrimitiveTypes
                 THEN encoding
                 ELSE WithProperty(encoding, propName, DeepObject),
               k + 1)

\* what a call leaves: the returned value, the number of calls of
\* this.warn, and the argument as it is after the call
MultipartReturn(value, warnings, argument) ==
    [status |-> "returned", value |-> Some(value), warnings |-> warnings,
     argument |-> argument]

\* transformRequestBody(requestBody) for a requestBody whose content is an
\* object of media type objects: every assignment of the method is to
\* schemaMulti, encoding or the new objects, so that the argument is after
\* the call what it was before
MultipartTransformRequestBody(requestBody) ==
    LET content == Member(requestBody, "content")
        mediaType == Member(content, "application/json")
        schema == Member(mediaType, "schema")
        multipartPropPaths == collectMultipartProperties(schema, <<>>)
        converted == ConvertPaths(schema, JsonCopy(schema),
                                  multipartPropPaths, 1)
        encoding == EncodingFrom(Member(schema, "properties"), Obj(<<>>), 1)
        haveEncoding == encoding # Obj(<<>>)
    IN  IF \/ Len(content.props) # 1
           \/ content.props[1].key # "application/json"
          THEN MultipartReturn(requestBody, 1, requestBody)
        ELSE IF multipartPropPaths = <<>>
          THEN MultipartReturn(requestBody, 0, requestBody)
        ELSE MultipartReturn(
               WithProperty(
                 requestBody, "content",
                 Obj(<<Prop("multipart/form-data",
                            WithProperty(
                              WithProperty(mediaType, "schema",
                                           converted.schemaMulti),
                              "encoding",
                              IF haveEncoding THEN encoding
                              ELSE Undefined))>>)),
               converted.warnings, requestBody)


\* pieces of text of which the descriptions are made
MultipartPieces ==
    {<<"The file.">>, <<"\n">>, <<MustUpload>>, <<ToUploadAttachments>>}

MultipartDescriptions ==
    {Undefined}
    \cup {Str(Flatten(pieces)) :
            pieces \in SeqsUpTo(MultipartPieces, MaxPieces)}

\* a schema of the type, with the description unless it is undefined
Described(props, description) ==
    IF description = Undefined THEN Obj(props)
    ELSE Obj(Append(props, Prop("description", description)))

\* the schemas of a property: strings with every description, a schema
\* without type, an array of attachment items, an array of integers, and
\* objects with the string property `data`, the parent with a description
\* which mentions multipart/form-data or without one
MultipartPropertySchemas ==
    LET string(description) ==
            Described(<<Prop("type", Str(<<"string">>))>>, description)
        attachments ==
            Described(
              <<Prop("type", Str(<<"array">>)),
                Prop("items",
                     Obj(<<Prop("type", Str(<<"object">>)),
                           Prop("properties",
                                Obj(<<Prop("attachment_item",
                                           StringSchema)>>))>>))>>,
              Str(<<"The files.", ToUploadAttachments>>))
        integers(description) ==
            Described(
              <<Prop("type", Str(<<"array">>)),
                Prop("items", Obj(<<Prop("type", Str(<<"integer">>))>>))>>,
              description)
        object(description, inner) ==
            Described(
              <<Prop("type", Str(<<"object">>)),
                Prop("properties", Obj(<<Prop("data", string(inner))>>))>>,
              description)
    IN  {string(d) : d \in MultipartDescriptions}
        \cup {Described(<<>>, Str(<<"The file.", NoteFile>>)), attachments,
              integers(Undefined),
              integers(Str(<<"The ids.", MustUpload>>))}
        \cup {object(d, inner) :
                d \in {Undefined, Str(<<"Sent as multipart/form-data.">>)},
                inner \in MultipartDescriptions}

\* the schemas of a request body: an object with one property, or with
\* that and a second one called name (a string, with a suffix or without
\* description, an integer, an array, an object), and a schema without
\* properties
MultipartSchemas ==
    LET second == {StringSchema,
                   Obj(<<Prop("type", Str(<<"string">>)),
                         Prop("description",
                              Str(<<"The name.", MustUpload>>))>>),
                   Obj(<<Prop("type", Str(<<"integer">>))>>),
                   Obj(<<Prop("type", Str(<<"array">>)),
                         Prop("items", StringSchema)>>),
                   Obj(<<Prop("type", Str(<<"object">>))>>)}
        object(props) ==
            Obj(<<Prop("type", Str(<<"object">>)),
                  Prop("properties", Obj(props))>>)
    IN  {StringSchema}
        \cup {object(<<Prop(name, schema)>>) :
                name \in {"attachment", "generic_tool_item"},
                schema \in MultipartPropertySchemas}
        \cup {object(<<Prop("attachment", schema), Prop("name", other)>>) :
                schema \in MultipartPropertySchemas, other \in second}

\* the request bodies: the content with application/json alone, with
\* another type alone, with both, and with none
MultipartBodies ==
    LET media(schema) == Obj(<<Prop("schema", schema)>>)
        body(content) ==
            Obj(<<Prop("required", Bool(TRUE)), Prop("content", content)>>)
        plain == Prop("text/plain", media(StringSchema))
    IN  {body(Obj(<<Prop("application/json", media(schema))>>)) :
           schema \in MultipartSchemas}
        \cup {body(Obj(<<Prop("application/x-www-form-urlencoded",
                              media(schema))>>)) :
                schema \in MultipartSchemas}
        \cup {body(Obj(<<Prop("application/json", media(StringSchema)),
                         plain>>)),
              body(Obj(<<plain,
                         Prop("application/json", media(StringSchema))>>)),
              body(Obj(<<>>))}

NoMultipartResult ==
    [status |-> "none", value |-> None, warnings |-> 0, argument |-> Null]

MultipartIdle ==
    /\ multipartBody = Null
    /\ multipartResult = NoMultipartResult

MultipartStart ==
    /\ multipartBody \in MultipartBodies
    /\ multipartResult = NoMultipartResult

MultipartCall ==
    /\ multipartBody # Null
    /\ multipartResult = NoMultipartResult
    /\ multipartResult' = MultipartTransformRequestBody(multipartBody)
    /\ UNCHANGED multipartBody
    /\ UNCHANGED multipartOthers

----------------------------------------------------------------------------
(* ErrorResponseTransformer.  A description is a string of chunks, the     *)
(* title of the status in a chunk of its own; a reference is the chunk     *)
(* '#/components/responses/' followed by the name.                         *)

errorSchema ==
    Obj(<<Prop("type", Str(<<"object">>)),
          Prop("properties",
               Obj(<<Prop("code",
                          Obj(<<Prop("type", Str(<<"integer">>)),
                                Prop("format", Str(<<"int32">>))>>)),
                     Prop("message", StringSchema),
                     Prop("fields", StringSchema),
                     Prop("reason",
                          Obj(<<Prop("description",
                                     Str(<<"A human-readable code providing additional detail on the cause of the error.">>)),
                                Prop("type", Str(<<"string">>))>>))>>))>>)

errorContent ==
    Obj(<<Prop("application/json", Obj(<<Prop("schema", errorSchema)>>))>>)

genericObjectResponse ==
    Obj(<<Prop("content",
               Obj(<<Prop("application/json",
                          Obj(<<Prop("schema",
                                     Obj(<<Prop("type",
                                                Str(<<"object">>))>>))>>))>>))>>)

\* the headers of LimitExceeded
RateLimitHeaders ==
    LET header(description, bound, example) ==
            Obj(<<Prop("description", Str(<<description>>)),
                  Prop("required", Bool(TRUE)),
                  Prop("schema",
                       Obj(<<Prop("type", Str(<<"integer">>)),
                             Prop(bound, Num(<<"0">>))>>)),
                  Prop("example", Num(<<example>>))>>)
    IN  Obj(<<Prop("X-Rate-Limit-Limit",
                   header("The total number of requests per 60 minute window.",
                          "exclusiveMinimum", "3600")),
              Prop("X-Rate-Limit-Remaining",
                   header("The number of requests you are allowed to make in the current 60 minute window.",
                          "minimum", "3599")),
              Prop("X-Rate-Limit-Reset",
                   header("The Unix timestamp for when the next window begins.",
                          "exclusiveMinimum", "1466182244"))>>)

componentsResponses ==
    LET response(status, title, rest) ==
            Obj(<<Prop("description", Str(<<"**", status, title, "** - ", rest>>)),
                  Prop("content", errorContent)>>)
    IN  Obj(<<Prop("BadRequest",
                   response("400 ", "Bad Request",
                            "The request was invalid or could not be understood by the server. Resubmitting the request will likely result in the same error.")),
              Prop("Unauthorized",
                   response("401 ", "Unauthorized",
                            "Your API key is missing.")),
              Prop("Forbidden",
                   response("403 ", "Forbidden",
                            "The application is attempting to perform an action it does not have privileges to access. Verify your API key belongs to an enabled user with the required permissions.")),
              Prop("NotFound",
                   response("404 ", "Not Found",
                            "The resource was not found with the given identifier. Either the URL given is not a valid API, or the ID of the object specified in the request is invalid.")),
              Prop("Conflict",
                   response("409 ", "Conflict",
                            "The request attempts to create a duplicate. For employees, duplicate emails are not allowed. For lists, duplicate values are not allowed.")),
              Prop("UnprocessableEntity",
                   response("422 ", "Unprocessable Entity",
                            "The structure, syntax, etc of the API call was correct, but due to business logic the server is unable to process the request.")),
              Prop("LimitExceeded",
                   Obj(<<Prop("description",
                              Str(<<"**", "429 ", "Limit Exceeded", "** - ",
                                    "API rate limit exceeded.  See https://developers.procore.com/documentation/rate-limiting">>)),
                         Prop("headers", RateLimitHeaders),
                         Prop("content", errorContent)>>)),
              Prop("InternalServerError",
                   response("500 ", "Internal Server Error",
                            "The server encountered an error while processing your request and failed.")),
              Prop("GatewayError",
                   response("502 ", "Gateway Error",
                            "The load balancer or web server had trouble connecting to the ACME app. Please try the request again.")),
              Prop("ServiceUnavailable",
                   response("503 ", "Service Unavailable",
                            "The service is temporarily unavailable. Please try the request again."))>>)

\* codeToResponseNames[code], undefined for a code which is not in it
codeToResponseNames ==
    Obj(<<Prop("400", Arr(<<Str(<<"BadRequest">>)>>)),
          Prop("401", Arr(<<Str(<<"Unauthorized">>)>>)),
          Prop("403", Arr(<<Str(<<"Forbidden">>)>>)),
          Prop("404", Arr(<<Str(<<"NotFound">>)>>)),
          Prop("406", Arr(<<Str(<<"NotAcceptable">>)>>)),
          Prop("409", Arr(<<Str(<<"Conflict">>)>>)),
          Prop("422", Arr(<<Str(<<"UnprocessableEntity">>)>>)),
          Prop("429", Arr(<<Str(<<"LimitExceeded">>)>>)),
          Prop("500", Arr(<<Str(<<"InternalServerError">>)>>)),
          Prop("502", Arr(<<Str(<<"GatewayError">>)>>)),
          Prop("503", Arr(<<Str(<<"ServiceUnavailable">>)>>))>>)

\* { $ref: `#/components/responses/${responseName}` }
ResponseRef(responseName) ==
    Obj(<<Prop("$ref", Str(<<"#/components/responses/", responseName>>))>>)

ubiquitousResponses ==
    Obj(<<Prop("429", ResponseRef("LimitExceeded")),
          Prop("500", ResponseRef("InternalServerError")),
          Prop("502", ResponseRef("GatewayError")),
          Prop("503", ResponseRef("ServiceUnavailable"))>>)

\* isDeepStrictEqual(a, b) of node:util for JSON values: the same kind, the
\* same own keys in any order, equal values
RECURSIVE isDeepStrictEqual(_, _)
isDeepStrictEqual(a, b) ==
    /\ a.kind = b.kind
    /\ a.text = b.text
    /\ Len(a.props) = Len(b.props)
    /\ \A k \in 1..Len(a.props) :
         /\ PropIndex(b, a.props[k].key) # 0
         /\ isDeepStrictEqual(a.props[k].value,
                              b.props[PropIndex(b, a.props[k].key)].value)

\* hasOwnProperty.call(value, ...) throws for undefined and null
IsNullish(value) == value.kind \in {"undefined", "null"}

\* isResponseEqual(response1, response2) for two values which are neither
\* undefined nor null
isResponseEqual(response1, response2) ==
    LET noDesc(response) ==
            IF HasOwnProperty(response, "description")
              THEN Without(response, "description")
              ELSE response
    IN  isDeepStrictEqual(noDesc(response1), noDesc(response2))

\* a.includes(b) for the chunks of two strings
Includes(a, b) ==
    \E i \in 1..(Len(a) - Len(b) + 1) : SubSeq(a, i, i + Len(b) - 1) = b

ErrorReturned(value) ==
    [status |-> "returned", value |-> Some(value), error |-> None]

ErrorThrew(e) == [status |-> "threw", value |-> None, error |-> Some(e)]

\* the loop of transformResponses over Object.entries(declared) from the
\* k-th entry on: the inner loop has one round, every list of names having
\* one name
RECURSIVE ResponsesFrom(_, _, _)
ResponsesFrom(declared, newResponses, k) ==
    IF k > Len(declared.props) THEN ErrorReturned(newResponses)
    ELSE LET code == declared.props[k].key
             response == declared.props[k].value
             responseNames == Member(codeToResponseNames, code)
             responseName == responseNames.props[1].value.text[1]
             namedResponse == Member(componentsResponses, responseName)
             description == Member(response, "description")
             responseRef ==
               IF /\ Truthy(description)
                  /\ ~Includes(Member(namedResponse, "description").text,
                               description.text)
                 THEN WithProperty(ResponseRef(responseName), "description",
                                   description)
                 ELSE ResponseRef(responseName)
         IN  IF ~Truthy(responseNames)
               THEN ResponsesFrom(declared, newResponses, k + 1)
             ELSE IF IsNullish(response) \/ IsNullish(namedResponse)
               THEN ErrorThrew("TypeError")
             ELSE IF \/ isResponseEqual(response, namedResponse)
                     \/ isResponseEqual(response, genericObjectResponse)
               THEN ResponsesFrom(declared,
                                  WithProperty(newResponses, code,
                                               responseRef),
                                  k + 1)
             ELSE ResponsesFrom(declared, newResponses, k + 1)

\* { ...a, ...b } for two objects
RECURSIVE Spread(_, _, _)
Spread(a, b, k) ==
    IF k > Len(b.props) THEN a
    ELSE Spread(WithProperty(a, b.props[k].key, b.props[k].value), b, k + 1)

\* transformResponses(responses)
ErrorTransformResponsesOf(declared) ==
    ResponsesFrom(declared, Spread(ubiquitousResponses, declared, 1), 1)

\* const [responseName, response] = name, for a key of componentsResponses:
\* its first two characters
FirstCharacters(name) ==
    CASE name = "BadRequest" -> <<"B", "a">>
      [] name = "Unauthorized" -> <<"U", "n">>
      [] name = "Forbidden" -> <<"F", "o">>
      [] name = "NotFound" -> <<"N", "o">>
      [] name = "Conflict" -> <<"C", "o">>
      [] name = "UnprocessableEntity" -> <<"U", "n">>
      [] name = "LimitExceeded" -> <<"L", "i">>
      [] name = "InternalServerError" -> <<"I", "n">>
      [] name = "GatewayError" -> <<"G", "a">>
      [] name = "ServiceUnavailable" -> <<"S", "e">>

\* the loop of addComponentsResponses over Object.keys(componentsResponses)
\* from the k-th key on
RECURSIVE MergeFrom(_, _, _)
MergeFrom(given, newResponses, k) ==
    IF k > Len(componentsResponses.props) THEN ErrorReturned(newResponses)
    ELSE LET entry == FirstCharacters(componentsResponses.props[k].key)
             responseName == entry[1]
             response == Str(<<entry[2]>>)
         IN  IF HasOwnProperty(given, responseName)
               THEN IF ~isDeepStrictEqual(response,
                                          GetProperty(given, responseName))
                      THEN ErrorThrew("Error")
                      ELSE MergeFrom(given, newResponses, k + 1)
             ELSE MergeFrom(given,
                            WithProperty(newResponses, responseName,
                                         JsonCopy(response)),
                            k + 1)

\* addComponentsResponses(responses) for undefined or an object
addComponentsResponses(given) ==
    IF given = Undefined THEN ErrorReturned(JsonCopy(componentsResponses))
    ELSE MergeFrom(given, ShallowCopy(given), 1)

\* transformComponents(components) for undefined or an object
transformComponents(components) ==
    LET added == addComponentsResponses(
                   IF Truthy(components) THEN Member(components, "responses")
                   ELSE components)
    IN  IF added.status = "threw" THEN added
        ELSE ErrorReturned(
               WithProperty(IF components = Undefined THEN Obj(<<>>)
                            ELSE components,
                            "responses", added.value[1]))

\* the place of the responses of the operation of the documents
OperationResponses == <<"paths", "/items", "get", "responses">>

\* transformOpenApi(openApi) for the document: the components, then the
\* paths, in which transformPaths of the base class comes to
\* transformResponses for the responses of each operation
ErrorTransformOpenApiOf(document) ==
    LET components == transformComponents(Member(document, "components"))
        transformed ==
            ErrorTransformResponsesOf(GetAtPath(document, OperationResponses))
    IN  IF components.status = "threw" THEN components
        ELSE IF transformed.status = "threw" THEN transformed
        ELSE ErrorReturned(
               WithProperty(
                 WithProperty(document, "components", components.value[1]),
                 "paths",
                 Member(SetAtPath(document, transformed.value[1],
                                  OperationResponses),
                        "paths")))

\* the status codes of the documents, in the order of Object.entries
ErrorCodes == <<"200", "400", "406", "429", "503", "default">>

\* the responses declared for a code: one with a description only, the
\* generic object response without description, with a description which
\* is in the description of BadRequest and with another one, a response
\* with another schema and, for a code which has a response in
\* componentsResponses, that response as it is, without description, with
\* another description and with its keys in the opposite order
DeclaredResponses(code) ==
    LET names == Member(codeToResponseNames, code)
        named == Member(componentsResponses,
                        IF names = Undefined THEN "none"
                        ELSE names.props[1].value.text[1])
        reversed(obj) ==
            Obj([k \in 1..Len(obj.props) |->
                   obj.props[Len(obj.props) + 1 - k]])
    IN  {Obj(<<Prop("description", Str(<<"Success.">>))>>),
         genericObjectResponse,
         WithProperty(genericObjectResponse, "description",
                      Str(<<"Bad Request">>)),
         WithProperty(genericObjectResponse, "description",
                      Str(<<"Invalid filter.">>)),
         Obj(<<Prop("description", Str(<<"Error.">>)),
               Prop("content",
                    Obj(<<Prop("application/json",
                               Obj(<<Prop("schema",
                                          Obj(<<Prop("type",
                                                     Str(<<"array">>))>>))>>))>>))>>)}
        \cup IF named = Undefined THEN {}
             ELSE {named, Without(named, "description"),
                   WithProperty(named, "description",
                                Str(<<"Invalid filter.">>)),
                   reversed(named)}

\* the responses of an operation: one code or two
DeclaredMaps ==
    LET codes == 1..Len(ErrorCodes)
        one(i) == {<<Prop(ErrorCodes[i], r)>> :
                     r \in DeclaredResponses(ErrorCodes[i])}
    IN  UNION {{Obj(p) : p \in one(i)} : i \in codes}
        \cup UNION {{Obj(p \o q) : p \in one(pair[1]), q \in one(pair[2])} :
                      pair \in {c \in codes \X codes : c[1] < c[2]}}

\* the components of a document: none, components without responses, with
\* no response, with a response of its own, with BadRequest as it is in
\* componentsResponses
GivenComponents ==
    {Undefined,
     Obj(<<Prop("schemas", Obj(<<>>))>>),
     Obj(<<Prop("responses", Obj(<<>>))>>),
     Obj(<<Prop("responses",
                Obj(<<Prop("Custom",
                           Obj(<<Prop("description",
                                      Str(<<"Success.">>))>>))>>))>>),
     Obj(<<Prop("responses",
                Obj(<<Prop("BadRequest",
                           Member(componentsResponses,
                                  "BadRequest"))>>))>>)}

\* the documents: one path with one operation
ErrorDocuments ==
    LET paths(declared) ==
            Prop("paths",
                 Obj(<<Prop("/items",
                            Obj(<<Prop("get",
                                       Obj(<<Prop("responses",
                                                  declared)>>))>>))>>))
        version == Prop("openapi", Str(<<"3.1.0">>))
    IN  {IF components = Undefined
           THEN Obj(<<version, paths(declared)>>)
           ELSE Obj(<<version, Prop("components", components),
                      paths(declared)>>) :
           components \in GivenComponents, declared \in DeclaredMaps}

NoErrorResult == [status |-> "none", value |-> None, error |-> None]

ErrorIdle ==
    /\ errorDocument = Null
    /\ errorResponsesResult = NoErrorResult
    /\ errorOpenApiResult = NoErrorResult

ErrorStart ==
    /\ errorDocument \in ErrorDocuments
    /\ errorResponsesResult = NoErrorResult
    /\ errorOpenApiResult = NoErrorResult

\* transformResponses(responses) for the responses of the operation
ErrorTransformResponses ==
    /\ errorDocument # Null
    /\ errorResponsesResult = NoErrorResult
    /\ errorResponsesResult' =
         ErrorTransformResponsesOf(
           GetAtPath(errorDocument, OperationResponses))
    /\ UNCHANGED <<errorDocument, errorOpenApiResult>>
    /\ UNCHANGED errorOthers

\* transformOpenApi(openApi) for the document
ErrorTransformOpenApi ==
    /\ errorDocument # Null
    /\ errorOpenApiResult = NoErrorResult
    /\ errorOpenApiResult' = ErrorTransformOpenApiOf(errorDocument)
    /\ UNCHANGED <<errorDocument, errorResponsesResult>>
    /\ UNCHANGED errorOthers

----------------------------------------------------------------------------
(* ProcoreOpenApi31To30Transformer.transformOpenApi(openApi).  A version    *)
(* string is two chunks, '3.1.' and the rest.                               *)

\* the elements of an array of strings
ElementsOf(array) ==
    {array.props[k].value : k \in 1..Len(array.props)}

\* allPrimitiveTypes(type)
allPrimitiveTypes(type) ==
    /\ IsArray(type)
    /\ LengthOf(type) >= 3
    /\ \A t \in {"boolean", "number", "string"} :
         Str(<<t>>) \in ElementsOf(type)

\* the place of the schema of the documents
DowngradeSchemaPath == <<"components", "schemas", "CustomField">>

\* new RemoveTypeIfTransformer(allPrimitiveTypes).transformOpenApi(openApi)
\* for a document with one schema: the schema without its type if the
\* predicate holds for the type
RemoveTypeIf(document) ==
    LET schema == GetAtPath(document, DowngradeSchemaPath)
    IN  IF allPrimitiveTypes(Member(schema, "type"))
          THEN SetAtPath(document, Without(schema, "type"),
                         DowngradeSchemaPath)
          ELSE document

DowngradeReturn(value, warnings) ==
    [status |-> "returned", value |-> Some(value), warnings |-> warnings]

\* transformOpenApi(openApi): the document after RemoveTypeIfTransformer
\* with the version (what OpenApi31To30Transformer changes between the two
\* is outside this model)
DowngradeTransformOpenApiOf(document) ==
    LET version == Member(document, "openapi")
        expected == /\ version.kind = "string"
                    /\ version.text # <<>>
                    /\ Head(version.text) = "3.1."
    IN  IF document.kind # "object" THEN DowngradeReturn(document, 1)
        ELSE DowngradeReturn(
               WithProperty(RemoveTypeIf(document), "openapi",
                            Str(<<"3.0.", "3">>)),
               IF expected THEN 0 ELSE 1)

TypeOrder ==
    <<"boolean", "integer", "number", "string", "null", "array", "object">>

\* the types of a schema: none, one name, and the arrays of names
DowngradeTypes ==
    {Undefined, Str(<<"string">>)}
    \cup {Arr(SelectSeq([k \in 1..Len(TypeOrder) |-> Str(<<TypeOrder[k]>>)],
                        LAMBDA t : t.text[1] \in names)) :
            names \in SUBSET {TypeOrder[k] : k \in 1..Len(TypeOrder)}}

\* the documents: a version and one schema; and some values which are not
\* objects
DowngradeDocuments ==
    LET schema(type) ==
            IF type = Undefined
              THEN Obj(<<Prop("description", Str(<<"A custom field.">>))>>)
              ELSE Obj(<<Prop("description", Str(<<"A custom field.">>)),
                         Prop("type", type)>>)
        components(type) ==
            Prop("components",
                 Obj(<<Prop("schemas",
                            Obj(<<Prop("CustomField", schema(type))>>))>>))
        versions == {Str(<<"3.1.", "0">>), Str(<<"3.0.", "3">>),
                     Str(<<"2.0">>), Num(<<"3.1">>)}
    IN  {Obj(<<Prop("openapi", version), components(type)>>) :
           version \in versions, type \in DowngradeTypes}
        \cup {Obj(<<components(type)>>) : type \in DowngradeTypes}
        \cup {Undefined, Str(<<"3.1.", "0">>), Arr(<<>>)}

NoDowngradeResult == [status |-> "none", value |-> None, warnings |-> 0]

DowngradeIdle ==
    /\ downgradeDocument = Null
    /\ downgradeResult = NoDowngradeResult

DowngradeStart ==
    /\ downgradeDocument \in DowngradeDocuments
    /\ downgradeResult = NoDowngradeResult

DowngradeTransformOpenApi ==
    /\ downgradeDocument # Null
    /\ downgradeResult = NoDowngradeResult
    /\ downgradeResult' = DowngradeTransformOpenApiOf(downgradeDocument)
    /\ UNCHANGED downgradeDocument
    /\ UNCHANGED downgradeOthers

----------------------------------------------------------------------------
(* Specifications *)

VisitInit ==
    /\ VisitIdle
    /\ CliIdle
    /\ CombineIdle
    /\ FilterIdle
    /\ EndpointsIdle
    /\ BodyIdle
    /\ ParamsIdle
    /\ KeyedIdle
    /\ VersionIdle
    /\ ApplyIdle
    /\ RepairIdle
    /\ FormatIdle
    /\ DeprecatedIdle
    /\ MultipartIdle
    /\ ErrorIdle
    /\ DowngradeIdle

VisitNext ==
    \/ BeginTransformApiDoc
    \/ VisitCall
    \/ VisitReturn
    \/ MethodThrow
    \/ VisitCatch
    \/ ApiDocReturn
    \/ ApiDocThrow

VisitSpec == VisitInit /\ [][VisitNext]_vars

CliInit ==
    /\ CliStart
    /\ VisitIdle
    /\ CombineIdle
    /\ FilterIdle
    /\ EndpointsIdle
    /\ BodyIdle
    /\ ParamsIdle
    /\ KeyedIdle
    /\ VersionIdle
    /\ ApplyIdle
    /\ RepairIdle
    /\ FormatIdle
    /\ DeprecatedIdle
    /\ MultipartIdle
    /\ ErrorIdle
    /\ DowngradeIdle

CliNext ==
    \/ ParseArgs
    \/ \E i \in 1..(MaxFiles + 1) : ReadParsed(i)
    \/ \E i \in 1..(MaxFiles + 1) : ReadFailed(i)
    \/ AwaitFulfilled
    \/ AwaitRejected
    \/ Construct
    \/ TransformDoc
    \/ Combine
    \/ FixupPass
    \/ WriteOutput

CliSpec == CliInit /\ [][CliNext]_vars

CombineInit ==
    /\ CombineStart
    /\ VisitIdle
    /\ CliIdle
    /\ FilterIdle
    /\ EndpointsIdle
    /\ BodyIdle
    /\ ParamsIdle
    /\ KeyedIdle
    /\ VersionIdle
    /\ ApplyIdle
    /\ RepairIdle
    /\ FormatIdle
    /\ DeprecatedIdle
    /\ MultipartIdle
    /\ ErrorIdle
    /\ DowngradeIdle

CombineNext ==
    \/ \E d \in OpenapiDocs : CombineDoc(d)
    \/ CombineReturn

CombineSpec == CombineInit /\ [][CombineNext]_vars

FilterInit ==
    /\ FilterStart
    /\ VisitIdle
    /\ CliIdle
    /\ CombineIdle
    /\ EndpointsIdle
    /\ BodyIdle
    /\ ParamsIdle
    /\ KeyedIdle
    /\ VersionIdle
    /\ ApplyIdle
    /\ RepairIdle
    /\ FormatIdle
    /\ DeprecatedIdle
    /\ MultipartIdle
    /\ ErrorIdle
    /\ DowngradeIdle

FilterNext ==
    \/ MakeEndpointFilter
    \/ CallEndpointFilter

FilterSpec == FilterInit /\ [][FilterNext]_vars

EndpointsInit ==
    /\ EndpointsStart
    /\ VisitIdle
    /\ CliIdle
    /\ CombineIdle
    /\ FilterIdle
    /\ BodyIdle
    /\ ParamsIdle
    /\ KeyedIdle
    /\ VersionIdle
    /\ ApplyIdle
    /\ RepairIdle
    /\ FormatIdle
    /\ DeprecatedIdle
    /\ MultipartIdle
    /\ ErrorIdle
    /\ DowngradeIdle

EndpointsNext ==
    \/ \E endpoint \in EndpointInputs : TransformEndpointsStep(endpoint)
    \/ \E endpoint \in EndpointInputs : TransformEndpointsThrow(endpoint)
    \/ TransformEndpointsReturn

EndpointsSpec == EndpointsInit /\ [][EndpointsNext]_vars

BodyInit ==
    /\ BodyStart
    /\ VisitIdle
    /\ CliIdle
    /\ CombineIdle
    /\ FilterIdle
    /\ EndpointsIdle
    /\ ParamsIdle
    /\ KeyedIdle
    /\ VersionIdle
    /\ ApplyIdle
    /\ RepairIdle
    /\ FormatIdle
    /\ DeprecatedIdle
    /\ MultipartIdle
    /\ ErrorIdle
    /\ DowngradeIdle

BodyNext ==
    \/ \E param \in BodyParamInputs : TransformBodyParam(param)
    \/ TransformBodyParamsReturn

BodySpec == BodyInit /\ [][BodyNext]_vars

ParamsInit ==
    /\ ParamsStart
    /\ VisitIdle
    /\ CliIdle
    /\ CombineIdle
    /\ FilterIdle
    /\ EndpointsIdle
    /\ BodyIdle
    /\ KeyedIdle
    /\ VersionIdle
    /\ ApplyIdle
    /\ RepairIdle
    /\ FormatIdle
    /\ DeprecatedIdle
    /\ MultipartIdle
    /\ ErrorIdle
    /\ DowngradeIdle

ParamsNext ==
    \/ \E type \in ParamTypes : TransformParamsStep(type)
    \/ TransformParamsReturn

ParamsSpec == ParamsInit /\ [][ParamsNext]_vars

KeyedInit ==
    /\ KeyedStart
    /\ VisitIdle
    /\ CliIdle
    /\ CombineIdle
    /\ FilterIdle
    /\ EndpointsIdle
    /\ BodyIdle
    /\ ParamsIdle
    /\ VersionIdle
    /\ ApplyIdle
    /\ RepairIdle
    /\ FormatIdle
    /\ DeprecatedIdle
    /\ MultipartIdle
    /\ ErrorIdle
    /\ DowngradeIdle

KeyedNext ==
    \/ \E status \in StatusValues : TransformResponsesStep(status)
    \/ \E field \in FieldValues : TransformSchemaPropertiesStep(field)
    \/ KeyedReturn

KeyedSpec == KeyedInit /\ [][KeyedNext]_vars

VersionInit ==
    /\ VersionStart
    /\ VisitIdle
    /\ CliIdle
    /\ CombineIdle
    /\ FilterIdle
    /\ EndpointsIdle
    /\ BodyIdle
    /\ ParamsIdle
    /\ KeyedIdle
    /\ ApplyIdle
    /\ RepairIdle
    /\ FormatIdle
    /\ DeprecatedIdle
    /\ MultipartIdle
    /\ ErrorIdle
    /\ DowngradeIdle

VersionNext ==
    \/ TransformApiDoc
    \/ TransformVersionTry
    \/ TransformVersionFinally

VersionSpec == VersionInit /\ [][VersionNext]_vars

ApplyInit ==
    /\ ApplyStart
    /\ VisitIdle
    /\ CliIdle
    /\ CombineIdle
    /\ FilterIdle
    /\ EndpointsIdle
    /\ BodyIdle
    /\ ParamsIdle
    /\ KeyedIdle
    /\ VersionIdle
    /\ RepairIdle
    /\ FormatIdle
    /\ DeprecatedIdle
    /\ MultipartIdle
    /\ ErrorIdle
    /\ DowngradeIdle

ApplyNext == ApplyToPathCall

ApplySpec == ApplyInit /\ [][ApplyNext]_vars

RepairInit ==
    /\ RepairStart
    /\ VisitIdle
    /\ CliIdle
    /\ CombineIdle
    /\ FilterIdle
    /\ EndpointsIdle
    /\ BodyIdle
    /\ ParamsIdle
    /\ KeyedIdle
    /\ VersionIdle
    /\ ApplyIdle
    /\ FormatIdle
    /\ DeprecatedIdle
    /\ MultipartIdle
    /\ ErrorIdle
    /\ DowngradeIdle

RepairNext == RepairCall

RepairSpec == RepairInit /\ [][RepairNext]_vars

FormatInit ==
    /\ FormatStart
    /\ VisitIdle
    /\ CliIdle
    /\ CombineIdle
    /\ FilterIdle
    /\ EndpointsIdle
    /\ BodyIdle
    /\ ParamsIdle
    /\ KeyedIdle
    /\ VersionIdle
    /\ ApplyIdle
    /\ RepairIdle
    /\ DeprecatedIdle
    /\ MultipartIdle
    /\ ErrorIdle
    /\ DowngradeIdle

FormatNext ==
    \/ FormatFirstPass
    \/ FormatSecondPass

FormatSpec == FormatInit /\ [][FormatNext]_vars

DeprecatedInit ==
    /\ DeprecatedStart
    /\ VisitIdle
    /\ CliIdle
    /\ CombineIdle
    /\ FilterIdle
    /\ EndpointsIdle
    /\ BodyIdle
    /\ ParamsIdle
    /\ KeyedIdle
    /\ VersionIdle
    /\ ApplyIdle
    /\ RepairIdle
    /\ FormatIdle
    /\ MultipartIdle
    /\ ErrorIdle
    /\ DowngradeIdle

DeprecatedNext == DeprecatedCall

DeprecatedSpec == DeprecatedInit /\ [][DeprecatedNext]_vars

MultipartInit ==
    /\ MultipartStart
    /\ VisitIdle
    /\ CliIdle
    /\ CombineIdle
    /\ FilterIdle
    /\ EndpointsIdle
    /\ BodyIdle
    /\ ParamsIdle
    /\ KeyedIdle
    /\ VersionIdle
    /\ ApplyIdle
    /\ RepairIdle
    /\ FormatIdle
    /\ DeprecatedIdle
    /\ ErrorIdle
    /\ DowngradeIdle

MultipartNext == MultipartCall

MultipartSpec == MultipartInit /\ [][MultipartNext]_vars

ErrorInit ==
    /\ ErrorStart
    /\ VisitIdle
    /\ CliIdle
    /\ CombineIdle
    /\ FilterIdle
    /\ EndpointsIdle
    /\ BodyIdle
    /\ ParamsIdle
    /\ KeyedIdle
    /\ VersionIdle
    /\ ApplyIdle
    /\ RepairIdle
    /\ FormatIdle
    /\ DeprecatedIdle
    /\ MultipartIdle
    /\ DowngradeIdle

ErrorNext ==
    \/ ErrorTransformResponses
    \/ ErrorTransformOpenApi

ErrorSpec == ErrorInit /\ [][ErrorNext]_vars

DowngradeInit ==
    /\ DowngradeStart
    /\ VisitIdle
    /\ CliIdle
    /\ CombineIdle
    /\ FilterIdle
    /\ EndpointsIdle
    /\ BodyIdle
    /\ ParamsIdle
    /\ KeyedIdle
    /\ VersionIdle
    /\ ApplyIdle
    /\ RepairIdle
    /\ FormatIdle
    /\ DeprecatedIdle
    /\ MultipartIdle
    /\ ErrorIdle

DowngradeNext == DowngradeTransformOpenApi

DowngradeSpec == DowngradeInit /\ [][DowngradeNext]_vars

----------------------------------------------------------------------------
(* Properties *)

\* C1: transformPath names exactly the active visit() calls, outermost
\* first: each call sees the path it was called with plus its own property
\* name, so the length of the path is the nesting depth.  Every visit()
\* call, returning or throwing, leaves the path as it found it, and the path
\* is empty whenever no transformApiDoc call is running.
C1_PathMatchesCallStack ==
    /\ Len(transformPath) = Len(frames)
    /\ \A i \in 1..Len(frames) :
         /\ i <= Len(transformPath)
         /\ transformPath[i] = frames[i].prop
         /\ frames[i].pre = SubSeq(transformPath, 1, i - 1)
    /\ lastVisit # None => lastVisit[1].post = lastVisit[1].pre
    /\ rootPos # 1 => transformPath = <<>>

\* a visit() call nested at least three deep has ended by rethrowing, and
\* the exception is still on its way out through the enclosing calls
C1_Witness ==
    /\ lastVisit # None
    /\ lastVisit[1].threw
    /\ Len(lastVisit[1].pre) >= 2
    /\ unwinding
    /\ frames # <<>>

\* C2: an error thrown inside visit() calls and caught by at least one of
\* them carries the path of the place it was thrown at (the innermost
\* frame's property name included) as its own transformPath, and its
\* message has exactly one suffix, the JSON pointer of that path, however
\* many outer frames it has passed through since.
C2_ErrorDecoratedOnce ==
    \A e \in {err[i] : i \in DOMAIN err} :
        (e.thrownAt # <<>> /\ e.catches >= 1) =>
            /\ e.own
            /\ e.transformPath = e.thrownAt
            /\ e.suffixes = <<toJsonPointer(e.thrownAt)>>

\* an error thrown four levels deep has passed through three visit() frames
C2_Witness ==
    /\ err # None
    /\ Len(err[1].thrownAt) >= 4
    /\ err[1].catches >= 3

DocumentWritten == \E k \in 1..Len(stdout) : stdout[k].kind = "document"

\* C3: the output document is on stdout only if nothing was thrown, every
\* input was transformed, the results were combined and all the fix-up
\* passes have run, and it is the document the last pass returned; if a
\* read, the constructor, a transformApiDoc call, combineOpenapi or a
\* fix-up pass threw, stdout is empty, the error is the last line on stderr
\* and main returned 1.
C3_OutputOnlyAfterPipeline ==
    /\ DocumentWritten =>
         /\ failure = None
         /\ Len(openapiDocs) = Len(filenames)
         /\ transformCalls = Len(filenames)
         /\ combined # None
         /\ Len(fixLog) = 8
         /\ stdout = <<[kind |-> "document",
                        doc |-> [fixLog[Len(fixLog)].output
                                   EXCEPT !.wrapped = TRUE]]>>
    /\ failure # None =>
         /\ stdout = <<>>
         /\ stderr # <<>>
         /\ stderr[Len(stderr)] = [kind |-> "error", error |-> failure[1]]
         /\ exitCode = Some(1)
         /\ cliPc = "exited"

\* two inputs were read and transformed and the document was written
C3_Witness ==
    /\ DocumentWritten
    /\ Len(filenames) >= 2
    /\ exitCode = Some(0)

\* C4: the transformer is constructed, and transformApiDoc is called, only
\* when every input has been read and parsed; if some read has failed,
\* neither has happened, whatever the order in which the reads ended.
C4_ReadsBeforeTransform ==
    /\ (constructed \/ transformCalls > 0) =>
          \A i \in DOMAIN reads : reads[i] = "parsed"
    /\ (\E i \in DOMAIN reads : reads[i] = "failed") =>
          ~constructed /\ transformCalls = 0

\* several inputs were read and the second one is being transformed
C4_Witness ==
    /\ Len(reads) >= 2
    /\ transformCalls >= 2

PassRan(name, before) ==
    \E i \in 1..(before - 1) : fixLog[i].pass = name

\* C5: every fix-up pass is given the document the pass before it returned
\* (the first one the combined document), no pass runs twice, DocBugs and
\* NullableToTypeNull have run when DateEnum, TimeMinMax, FormatFromContext
\* or Multipart runs, and Deprecated has run when Multipart runs.
C5_FixupOrder ==
    \A j \in 1..Len(fixLog) :
       /\ fixLog[j].input = IF j = 1 THEN combined[1]
                                  ELSE fixLog[j - 1].output
       /\ ~PassRan(fixLog[j].pass, j)
       /\ fixLog[j].pass \in {"DateEnum", "TimeMinMax", "FormatFromContext",
                               "Multipart"} =>
             PassRan("DocBugs", j) /\ PassRan("NullableToTypeNull", j)
       /\ fixLog[j].pass = "Multipart" => PassRan("Deprecated", j)

\* the Multipart pass has run
C5_Witness ==
    \E j \in 1..Len(fixLog) : fixLog[j].pass = "Multipart"

\* ---- combineOpenapi ----

\* the tags of the documents, in the order of the documents
RECURSIVE TagsOf(_)
TagsOf(docs) ==
    IF docs = <<>> THEN <<>>
    ELSE (IF Head(docs).tags = None THEN <<>> ELSE Head(docs).tags[1])
         \o TagsOf(Tail(docs))

\* the name of each tag, each name at its first place only
FirstSeenNames(tags) ==
    LET first == {i \in 1..Len(tags) :
                    \A k \in 1..(i - 1) : tags[k].name # tags[i].name}
        Nth(n) == CHOOSE i \in first : Cardinality({k \in first : k < i}) = n - 1
    IN  [n \in 1..Cardinality(first) |-> tags[Nth(n)].name]

NamesOf(tags) == [n \in 1..Len(tags) |-> tags[n].name]

\* combineOpenapi([A, B]) is over, for A and B of one version and of
\* disjoint paths
TwoDisjointDocsDone ==
    /\ Len(cDocs) = 2
    /\ cResult.status # "running"
    /\ cDocs[1].openapi = cDocs[2].openapi
    /\ DOMAIN cDocs[1].paths \cap DOMAIN cDocs[2].paths = {}

\* the result has the paths of both, each with its path item, and names
\* each tag once in the order of first appearance
ResultIsUnion ==
    /\ cResult.status = "returned"
    /\ cResult.value # None
    /\ LET r == cResult.value[1]
           A == cDocs[1]
           B == cDocs[2]
       IN  /\ DOMAIN r.paths = DOMAIN A.paths \cup DOMAIN B.paths
           /\ \A k \in DOMAIN A.paths : r.paths[k] = A.paths[k]
           /\ \A k \in DOMAIN B.paths : r.paths[k] = B.paths[k]
           /\ NamesOf(r.tags) = FirstSeenNames(TagsOf(cDocs))

\* C6 as stated: for any two documents A and B of the same openapi version
\* and of disjoint paths, combineOpenapi([A, B]) returns a document with the
\* union of the paths, each with the path item of its document, and with
\* each distinct tag name once in the order of first appearance.
C6_AnyTwoDisjointDocsCombine == TwoDisjointDocsDone => ResultIsUnion

\* C6 as the code has it: the same, for documents whose version starts with
\* "3.", which have no top-level property but openapi, tags and paths, and
\* whose tags of one name are deeply equal.
C6_DisjointDocsCombine ==
    ( /\ TwoDisjointDocsDone
      /\ StartsWith(cDocs[1].openapi, <<"3", ".">>)
      /\ \A i \in 1..2 : cDocs[i].extra = {}
      /\ LET all == TagsOf(cDocs)
         IN  \A i, j \in 1..Len(all) :
               all[i].name = all[j].name => all[i] = all[j] )
    => ResultIsUnion

C6_Witness ==
    /\ Len(cDocs) = 2
    /\ cResult.status = "returned"
    /\ cDocs[1].paths = OnePath("/b", "item3")
    /\ cDocs[2].paths = OnePath("/a", "item1")
    /\ cDocs[1].tags = Some(<<TagB>>)
    /\ cDocs[2].tags = Some(<<TagA, TagB>>)
    /\ NamesOf(cResult.value[1].tags) = <<"b", "a">>

\* C7: combineOpenapi throws whenever one path string is a key of paths in
\* two of the documents it was given (so for [A, A] with a path in A), and
\* a path item which is in the combined paths is never replaced by that of
\* a later document.
C7_DuplicatePathIsError ==
    /\ (\E i, j \in 1..Len(cDocs) :
          i < j /\ DOMAIN cDocs[i].paths \cap DOMAIN cDocs[j].paths # {})
       => cResult.status = "threw"
    /\ cResult.status \in {"running", "returned"} =>
         \A i \in 1..Len(cDocs) : \A k \in DOMAIN cDocs[i].paths :
           /\ k \in DOMAIN combinedPaths
           /\ combinedPaths[k] = cDocs[i].paths[k]
    /\ (cResult.status = "returned" /\ cResult.value # None) =>
         cResult.value[1].paths = combinedPaths

C7_Witness ==
    /\ Len(cDocs) = 2
    /\ cDocs[1] = cDocs[2]
    /\ cDocs[1].paths # NoPaths
    /\ cResult.status = "threw"
    /\ cResult.error = Some("duplicatePath")

\* C8: combineOpenapi throws if two of the documents differ in their openapi
\* version string or if a document has a top-level property other than
\* openapi, tags and paths; the openapi of a result is the version which all
\* the documents have.
C8_VersionAndPropertiesChecked ==
    /\ (\E i, j \in 1..Len(cDocs) : cDocs[i].openapi # cDocs[j].openapi)
       => cResult.status = "threw"
    /\ (\E i \in 1..Len(cDocs) : cDocs[i].extra # {})
       => cResult.status = "threw"
    /\ (cResult.status = "returned" /\ cDocs # <<>>) =>
         /\ cResult.value # None
         /\ \A i \in 1..Len(cDocs) :
              cResult.value[1].openapi = cDocs[i].openapi

C8_Witness ==
    /\ Len(cDocs) = 2
    /\ cDocs[1].openapi = <<"3", ".", "0.3">>
    /\ cDocs[2].openapi = <<"3", ".", "1.0">>
    /\ cDocs[1].extra = {}
    /\ cDocs[2].extra = {}
    /\ cResult.status = "threw"
    /\ cResult.error = Some("versionMismatch")

\* C9: when two of the documents have a tag of one name, combineOpenapi
\* throws unless the two tags are deeply equal; the tags of a result have
\* no name twice, and each is the first tag of its name in the documents.
C9_SameNameTagsMustMatch ==
    /\ (\E i, j \in 1..Len(cDocs) :
          /\ i < j
          /\ cDocs[i].tags # None
          /\ cDocs[j].tags # None
          /\ \E m \in 1..Len(cDocs[i].tags[1]), n \in 1..Len(cDocs[j].tags[1]) :
               /\ cDocs[i].tags[1][m].name = cDocs[j].tags[1][n].name
               /\ cDocs[i].tags[1][m] # cDocs[j].tags[1][n])
       => cResult.status = "threw"
    /\ (cResult.status = "returned" /\ cResult.value # None) =>
         LET tags == cResult.value[1].tags
             all == TagsOf(cDocs)
         IN  /\ \A m, n \in 1..Len(tags) :
                  tags[m].name = tags[n].name => m = n
             /\ \A m \in 1..Len(tags) :
                  \E i \in 1..Len(all) :
                    /\ all[i] = tags[m]
                    /\ \A k \in 1..(i - 1) : all[k].name # tags[m].name
             /\ \A i \in 1..Len(all) :
                  \E m \in 1..Len(tags) : tags[m].name = all[i].name

C9_Witness ==
    /\ Len(cDocs) = 2
    /\ cDocs[1].tags = Some(<<TagA>>)
    /\ cDocs[2].tags = Some(<<TagB, TagA>>)
    /\ cResult.status = "returned"
    /\ cResult.value[1].tags = <<TagA, TagB>>

\* ---- makeEndpointFilter ----

\* the rank of a recognized support level
Rank(level) ==
    CASE level = "internal" -> 0
      [] level = "alpha" -> 1
      [] level = "beta" -> 2
      [] level = "production" -> 3

\* an endpoint of a recognized support_level was given to the filter of
\* makeEndpointFilter(T, L)
RecognizedCallDone ==
    /\ filterCall.status \in {"returned", "threw"}
    /\ filterCall.endpoint[1].support_level
         \in {"internal", "alpha", "beta", "production"}

\* C10: for every threshold T of the four levels, every allow-list L and
\* every endpoint of a recognized support_level, the filter of
\* makeEndpointFilter(T, L) returns true exactly when (internal_only is false
\* or T is "internal") and (beta_programs meets L or rank(support_level) >=
\* rank(T)); so with ("beta", []) an alpha endpoint is out and a production
\* one is in, and an internal_only production endpoint is out for every T
\* above "internal".
C10_FilterTruthTable ==
    RecognizedCallDone =>
      LET e == filterCall.endpoint[1]
          T == filterArgs.minSupportLevel
          L == filterArgs.includeBetaPrograms
          programs == {e.beta_programs[k] : k \in 1..Len(e.beta_programs)}
      IN  /\ filterCall.status = "returned"
          /\ filterCall.value =
               ( /\ (~e.internal_only \/ T = "internal")
                 /\ (programs \cap L # {}
                       \/ Rank(e.support_level) >= Rank(T)) )
          /\ (T = "beta" /\ L = {} /\ e.support_level = "alpha")
               => ~filterCall.value
          /\ (T = "beta" /\ L = {} /\ e.support_level = "production"
                /\ ~e.internal_only)
               => filterCall.value
          /\ (e.internal_only /\ e.support_level = "production"
                /\ T # "internal")
               => ~filterCall.value

C10_Witness ==
    /\ filterCall.status = "returned"
    /\ filterArgs.minSupportLevel = "beta"
    /\ filterCall.endpoint[1].internal_only
    /\ filterCall.endpoint[1].support_level = "production"
    /\ filterCall.endpoint[1].beta_programs = <<"p1">>
    /\ filterArgs.includeBetaPrograms = {"p1"}
    /\ filterCall.value = FALSE

\* an endpoint whose support_level is none of the four levels was given to
\* the filter, called as this.options.endpointFilter(endpoint)
UnrecognizedCallDone ==
    /\ filterCall.status \in {"returned", "threw"}
    /\ filterCall.endpoint[1].support_level
         \notin {"internal", "alpha", "beta", "production"}

\* C11: for an endpoint whose support_level is none of the four levels, the
\* filter called through options.endpointFilter throws nothing and returns
\* a boolean: true exactly when beta_programs meets the allow-list and
\* (internal_only is false or the threshold is "internal"), for every
\* threshold.
C11_UnknownLevelNeverThrows ==
    UnrecognizedCallDone =>
      LET e == filterCall.endpoint[1]
          T == filterArgs.minSupportLevel
          L == filterArgs.includeBetaPrograms
          programs == {e.beta_programs[k] : k \in 1..Len(e.beta_programs)}
      IN  /\ filterCall.status = "returned"
          /\ filterCall.value =
               ( /\ (~e.internal_only \/ T = "internal")
                 /\ programs \cap L # {} )

\* ---- transformEndpoints ----

\* the endpoints iterated over which passed the filter and have this path
\* and method (by index from 0)
AcceptedAt(path, method) ==
    {i \in 0..(Len(endpoints) - 1) :
       /\ endpoints[i + 1].accepted
       /\ endpoints[i + 1].base_path \o endpoints[i + 1].path = path
       /\ endpoints[i + 1].verb = method}

EndpointKeys ==
    {<<e.base_path \o e.path, e.verb>> : e \in EndpointInputs}

\* two endpoints which passed the filter have the same base_path + path and
\* the same verb
AcceptedCollision ==
    \E k \in EndpointKeys : Cardinality(AcceptedAt(k[1], k[2])) >= 2

\* C12: each (path, method) pair of the paths built by transformEndpoints
\* holds the operation of exactly one endpoint given, the one which passed
\* the filter with that base_path + path and verb; when two endpoints which
\* pass the filter have the same base_path + path and verb, the call throws
\* and returns no paths; endpoints which the filter rejects never make it
\* throw that error.
C12_OneOperationPerPathAndMethod ==
    /\ endpointsResult.status \in {"running", "returned"} =>
         /\ \A p \in DOMAIN pathsObj : \A m \in DOMAIN pathsObj[p] :
              /\ Cardinality(AcceptedAt(p, m)) = 1
              /\ \A i \in AcceptedAt(p, m) : pathsObj[p][m] = [endpoint |-> i]
         /\ \A k \in EndpointKeys :
              AcceptedAt(k[1], k[2]) # {} =>
                /\ k[1] \in DOMAIN pathsObj
                /\ k[2] \in DOMAIN pathsObj[k[1]]
    /\ AcceptedCollision => endpointsResult.status = "threw"
    /\ endpointsResult.error = Some("methodAppearsMultipleTimes") =>
         AcceptedCollision

\* a rejected endpoint and two accepted ones, all for GET /rest/v1/x, the
\* accepted ones with different base_path: the second accepted one throws
C12_Witness ==
    /\ Len(endpoints) = 3
    /\ ~endpoints[1].accepted
    /\ endpoints[2].accepted
    /\ endpoints[3].accepted
    /\ \A i \in 1..3 :
         /\ endpoints[i].base_path \o endpoints[i].path
              = <<"/rest", "/v1", "/x">>
         /\ endpoints[i].verb = "get"
    /\ endpoints[2].base_path # endpoints[3].base_path
    /\ endpointsResult = [status |-> "threw",
                          error |-> Some("methodAppearsMultipleTimes")]
    /\ pathsObj[<<"/rest", "/v1", "/x">>]["get"] = [endpoint |-> 1]

\* ---- transformBodyParams ----

\* C13: in transformBodyParams an entry whose indentation is less than 2
\* or no multiple of 2 throws; an entry of depth d = indentation / 2 for
\* which the stack has no schema of depth d - 1 throws, except when d > 2,
\* d - 1 is the length of the stack and the schema of depth d - 2 is an
\* array without items: then a new { type: 'array' } schema is made the
\* items of that array and is the parent of the entry.  A gap of more than
\* one level, and a gap under a grandparent which is no array (or has
\* items), always throw.
C13_IndentationAndTheToleratedGap ==
    bodyLast # None =>
      LET it == bodyLast[1]
          param == bodyParams[Len(bodyParams)]
          d == param.indentation \div 2
          n == Len(it.stack)
          grand == it.schemas[it.stack[d - 1]]
      IN  IF param.indentation < 2 \/ param.indentation % 2 = 1
            THEN bodyResult = [status |-> "threw",
                               error |-> Some("indentation")]
          ELSE IF d - 1 < n
            THEN /\ ~it.implicit
                 /\ it.parent = Some(it.stack[d])
                 /\ bodyResult.error \notin {Some("indentation"),
                                             Some("noParent")}
          ELSE IF d > 2 /\ d - 1 = n /\ grand.type = "array"
                  /\ grand.items = None
            THEN /\ it.implicit
                 /\ it.parent # None
                 /\ it.parent[1] \notin DOMAIN it.schemas
                 /\ schemas[it.stack[d - 1]].items = it.parent
                 /\ schemas[it.parent[1]].type = "array"
                 /\ bodyResult.error \notin {Some("indentation"),
                                             Some("noParent")}
          ELSE /\ ~it.implicit
               /\ schemas = it.schemas
               /\ bodyResult = [status |-> "threw",
                                error |-> Some("noParent")]

\* an array at depth 1 is followed by an entry at depth 3: the implicit
\* array was made and the entry is its items
C13_Witness ==
    /\ Len(bodyParams) = 2
    /\ bodyParams[1] = [indentation |-> 2, name |-> Some("a"),
                        type |-> "array"]
    /\ bodyParams[2] = [indentation |-> 6, name |-> None, type |-> "string"]
    /\ bodyResult.status = "running"
    /\ bodyLast[1].implicit
    /\ schemas[2].items = Some(3)
    /\ schemas[3] = [type |-> "array", items |-> Some(4), properties |-> {}]
    /\ schemas[4].type = "string"
    /\ schemaForDepth = <<1, 2, 3, 4>>

\* ---- transformParams ----

\* the schema of identity id with the schemas it holds
RECURSIVE ResolveSchema(_, _)
ResolveSchema(heap, id) ==
    [type |-> heap[id].type,
     items |-> IF heap[id].items = None THEN None
               ELSE Some(ResolveSchema(heap, heap[id].items[1]))]

\* the schema expected for the element i of params: an array holds the
\* schema of the element which follows it
RECURSIVE ExpectedSchema(_, _)
ExpectedSchema(params, i) ==
    [type |-> params[i].type,
     items |-> IF params[i].type = "array" /\ i < Len(params)
                 THEN Some(ExpectedSchema(params, i + 1))
                 ELSE None]

\* the parameters expected for params: one for each element which does not
\* follow an array, in the order of the elements
RECURSIVE ExpectedParameters(_, _, _)
ExpectedParameters(params, in, i) ==
    IF i > Len(params) THEN <<>>
    ELSE (IF i > 1 /\ params[i - 1].type = "array" THEN <<>>
          ELSE <<[name |-> params[i].name, in |-> in,
                  schema |-> ExpectedSchema(params, i)]>>)
         \o ExpectedParameters(params, in, i + 1)

NoObjectParam ==
    /\ \A i \in 1..Len(pathParams) : pathParams[i].type # "object"
    /\ \A i \in 1..Len(queryParams) : queryParams[i].type # "object"

\* C14: for path_params and query_params without an element of type
\* object, transformParams gives the parameters in the order of the
\* elements: an element which directly follows an element of type array is
\* no parameter but the items of the schema of that element, and every
\* other element gives exactly one parameter; no element is refused for an
\* array which has items already.  So one path element and the query
\* elements [array, integer] give 2 parameters, the second with a schema of
\* type array whose items have type integer.
C14_ArrayItemsMerged ==
    /\ paramsResult.error # Some("conflictsWithItems")
    /\ NoObjectParam => paramsResult.error # Some("typeObject")
    /\ (paramsResult.status = "returned" /\ NoObjectParam) =>
         [k \in 1..Len(parameters) |->
            [parameters[k] EXCEPT
               !.schema = ResolveSchema(paramSchemas, @)]]
           = ExpectedParameters(pathParams, "path", 1)
               \o ExpectedParameters(queryParams, "query", 1)
    /\ (paramsResult.status = "returned" /\ Len(pathParams) = 1
          /\ pathParams[1].type = "integer"
          /\ Len(queryParams) = 2 /\ queryParams[1].type = "array"
          /\ queryParams[2].type = "integer") =>
         /\ Len(parameters) = 2
         /\ ResolveSchema(paramSchemas, parameters[2].schema)
              = [type |-> "array",
                 items |-> Some([type |-> "integer", items |-> None])]

\* a path element ending in an array, and query elements array, array,
\* integer: the path array has no items, the query elements make one
\* parameter
C14_Witness ==
    /\ paramsResult.status = "returned"
    /\ Len(pathParams) = 2
    /\ pathParams[2].type = "array"
    /\ Len(queryParams) = 3
    /\ queryParams[1].type = "array"
    /\ queryParams[2].type = "array"
    /\ queryParams[3].type = "integer"
    /\ Len(parameters) = 3
    /\ parameters[3].name = <<"query", 0>>
    /\ paramSchemas[parameters[2].schema].items = None

\* ---- transformResponses, transformSchemaProperties ----

\* C15: transformResponses throws when two elements of responses have the
\* same status, transformSchemaProperties throws when two elements of
\* properties have the same field; in neither does a later element take
\* the place of an earlier one: what is stored under a key is the result
\* for the one element with that key.  A status which is no string of the
\* form [2-5][0-9][0-9] is warned about and does not throw: its response
\* is stored under that status.
C15_DuplicateKeysThrow ==
    /\ (\E i, j \in 1..Len(responses) :
          i < j /\ responses[i].status = responses[j].status)
       => keyedResult.status = "threw"
    /\ (\E i, j \in 1..Len(properties) :
          i < j /\ properties[i].field = properties[j].field)
       => keyedResult.status = "threw"
    /\ keyedResult.status \in {"running", "returned"} =>
         /\ \A i \in 1..Len(responses) :
              /\ responses[i].status.digits \in DOMAIN responseByStatus
              /\ responseByStatus[responses[i].status.digits]
                   = [response |-> i - 1]
         /\ \A i \in 1..Len(properties) :
              /\ properties[i].field.digits \in DOMAIN propertiesByName
              /\ propertiesByName[properties[i].field.digits]
                   = [property |-> i - 1]
    /\ \A i \in 1..Len(responses) :
         LET s == responses[i].status
             valid == /\ s.isString
                      /\ s.digits \in {<<2, 0, 0>>, <<4, 0, 4>>}
         IN  (\E k \in 1..Len(keyedWarnings) : keyedWarnings[k] = i - 1)
               <=> ~valid
    /\ keyedCall = "transformResponses" =>
         keyedResult.error \in {None, Some("multipleResponses"),
                                Some("transformResponse")}
    /\ keyedResult.error = Some("multipleResponses") =>
         \E i \in 1..(Len(responses) - 1) :
            responses[i].status.digits
              = responses[Len(responses)].status.digits

\* the statuses "200", "600" and "200": the second is warned about and
\* stored, the third throws and the first stays
C15_Witness ==
    /\ Len(responses) = 3
    /\ responses[1].status = [isString |-> TRUE, digits |-> <<2, 0, 0>>]
    /\ responses[2].status = [isString |-> TRUE, digits |-> <<6, 0, 0>>]
    /\ responses[3].status = [isString |-> TRUE, digits |-> <<2, 0, 0>>]
    /\ keyedWarnings = <<1>>
    /\ responseByStatus[<<6, 0, 0>>] = [response |-> 1]
    /\ responseByStatus[<<2, 0, 0>>] = [response |-> 0]
    /\ keyedResult = [status |-> "threw",
                      error |-> Some("multipleResponses")]


\* ---- transformApiDoc, transformVersions, transformVersion ----

\* the versions array of a document is an array with an element
HasVersions(doc) == doc.versions # None /\ doc.versions[1] # <<>>

\* the element of the versions array which is last in it
LastVersion(doc) == doc.versions[1][Len(doc.versions[1])]

\* C16: transformApiDoc converts the last element of versions only: two
\* documents whose non-empty versions arrays end with the same version
\* object end alike, with equal OpenAPI documents or the same error.  More
\* than one version is warned about ('Found %d versions') and is no error:
\* when the last version has a name and endpoints which transform, the
\* call returns.
C16_OnlyTheLastVersion ==
    /\ \A i, j \in 1..Len(apiResults) :
         (/\ HasVersions(apiDocs[i])
          /\ HasVersions(apiDocs[j])
          /\ LastVersion(apiDocs[i]) = LastVersion(apiDocs[j]))
           => apiResults[i] = apiResults[j]
    /\ \A i \in 1..Len(apiResults) :
         LET doc == apiDocs[i]
             found == IF doc.versions = None THEN 0
                      ELSE Len(doc.versions[1])
         IN  /\ found > 1
                  <=> \E k \in 1..Len(versionWarnings) :
                        versionWarnings[k] = [call |-> i, found |-> found]
             /\ (/\ HasVersions(doc)
                 /\ LastVersion(doc).name # None
                 /\ LastVersion(doc).endpoints = "valid")
                  => /\ apiResults[i].status = "returned"
                     /\ apiResults[i].document[1].paths.endpoints = "valid"

\* a document with two different versions and a document with the second
\* of them only: one warning, and both calls returned the same document
C16_Witness ==
    /\ Len(apiResults) = 2
    /\ HasVersions(apiDocs[1])
    /\ Len(apiDocs[1].versions[1]) = 2
    /\ apiDocs[1].versions[1][1] # apiDocs[1].versions[1][2]
    /\ apiDocs[1].versions[1][1].name # None
    /\ apiDocs[1].versions[1][1].endpoints = "invalid"
    /\ apiDocs[2].versions = Some(<<apiDocs[1].versions[1][2]>>)
    /\ versionWarnings = <<[call |-> 1, found |-> 2]>>
    /\ apiResults[1].status = "returned"
    /\ apiResults[2] = apiResults[1]

\* transformVersion is between setting the three fields and the end of
\* its finally block
VersionActive == versionPc \in {"try", "finally"}

\* C17: this[docsUrlSymbol], this[versionNameSymbol] and
\* this[versionToolsSymbol] are set only while transformVersion is active,
\* to the values of the version being transformed, and are undefined once
\* it returned or threw; the document of a later call has the name, url
\* and tools of its own version and none of an earlier one.
C17_VersionContextScoped ==
    /\ ~VersionActive =>
         /\ docsUrl = None
         /\ versionName = None
         /\ versionTools = None
    /\ VersionActive =>
         LET version == LastVersion(apiDocs[apiCall])
         IN  /\ versionName = version.name
             /\ versionTools = version.tools
             /\ docsUrl # None
    /\ \A i \in 1..Len(apiResults) :
         apiResults[i].status = "returned" =>
           LET version == LastVersion(apiDocs[i])
               paths == apiResults[i].document[1].paths
           IN  /\ paths.versionName = version.name
               /\ paths.tags = version.tools
               /\ paths.externalDocs =
                    Some(<<"https://developers.procore.com/reference/rest/v1/">>
                         \o GroupNameToUrlPath(version.name[1]))

\* the first call threw in transformEndpoints with the fields set, the
\* second returned for a version with another name and no tools; the
\* fields are undefined again
C17_Witness ==
    /\ Len(apiResults) = 2
    /\ apiResults[1] = ApiThrew("Error")
    /\ HasVersions(apiDocs[1])
    /\ LastVersion(apiDocs[1]).name = Some(<<"A">>)
    /\ LastVersion(apiDocs[1]).tools # None
    /\ apiResults[2].status = "returned"
    /\ apiResults[2].document[1].paths.versionName # Some(<<"A">>)
    /\ apiResults[2].document[1].paths.tags = None
    /\ apiResults[2].document[1].paths.externalDocs =
         Some(<<"https://developers.procore.com/reference/rest/v1/",
                "b", "-", "a">>)
    /\ versionPc = "idle"
    /\ docsUrl = None
    /\ versionName = None
    /\ versionTools = None


\* ---- applyToPath ----

RECURSIVE SegmentMissing(_, _, _)
\* some property name of path, from the one at i on, is absent on its
\* parent: the parent is undefined or null, or it is a value without an
\* own property of that name (an object, an array, a number, a string)
SegmentMissing(obj, path, i) ==
    IF i >= Len(path) THEN FALSE
    ELSE IF obj.kind \in {"undefined", "null"} THEN TRUE
    ELSE IF ~HasOwnProperty(obj, path[i + 1]) THEN TRUE
    ELSE SegmentMissing(GetProperty(obj, path[i + 1]), path, i + 1)

\* C18: when some segment of the path is absent on its parent, also when
\* an ancestor on the path holds undefined, null or a value which is no
\* object, applyToPath does not throw: it warns, returns the tree it was
\* given and does not call transform.
C18_MissingSegmentWarnsAndReturns ==
    (applyResult.status # "none" /\ SegmentMissing(applyObj, applyPath, 0))
      => /\ applyResult.status = "returned"
         /\ applyResult.value = Some(applyObj)
         /\ applyResult.warnings # <<>>
         /\ applyResult.calls = <<>>

\* C19: with a transform which returns its argument, applyToPath returns
\* a tree deeply equal to the one it was given.
C19_IdentityReturnsEqualTree ==
    (applyTransform = "identity" /\ applyResult.status = "returned")
      => applyResult.value = Some(applyObj)


\* ---- the repair functions of DocBugsTransformer ----

\* C20: a repair function does not throw; when it warns, which is what it
\* does for a node that does not satisfy its precondition, it returns the
\* node it was given unmodified; a node which is undefined or null
\* satisfies no precondition and is warned about.
C20_RepairWarnsAndReturnsNode ==
    repairResult.status # "none" =>
      /\ repairResult.status = "returned"
      /\ repairResult.warnings > 0 => repairResult.value = Some(repairNode)
      /\ repairNode \in {Undefined, Null} => repairResult.warnings > 0


\* ---- FormatFromContextTransformer.transformSchemaWithContext ----

\* the format of a schema, undefined for none
FormatOf(schema) == Member(schema, "format")

\* C21: the pass applied to the result of the pass returns a schema equal
\* to that result, and a schema which has a format is returned with that
\* format, as it is.
C21_FormatPassIdempotent ==
    /\ Len(formatResults) = 2 => formatResults[2] = formatResults[1]
    /\ (Len(formatResults) >= 1 /\ FormatOf(formatSchema) # Undefined)
         => formatResults[1] = formatSchema

\* a format was inferred in the first pass and the second pass has run
C21_Witness ==
    /\ Len(formatResults) = 2
    /\ FormatOf(formatSchema) = Undefined
    /\ FormatOf(formatResults[1]) = Str(<<"uuid">>)
    /\ formatResults[2] = formatResults[1]

\* the formats which the sources of a schema yield, each taken alone
OfName == FormatFromName(formatName)

OfSchemaDescription ==
    FormatFromDescription(Member(formatSchema, "description"))

OfParameterDescription ==
    IF formatParameter = Undefined THEN None
    ELSE FormatFromDescription(Member(formatParameter, "description"))

OfSchemaExample == FormatFromExample(Member(formatSchema, "example"))

OfParameterExample ==
    IF formatParameter = Undefined THEN None
    ELSE FormatFromExample(Member(formatParameter, "example"))

\* C22: a string schema without a format gets the format of the first
\* source which yields one, in the order name, schema description,
\* parameter description, schema example, parameter example, in a copy
\* which differs from the schema in format only; when no source yields one,
\* and for a schema which is no string schema or has a format, the schema
\* itself is returned.
C22_FirstSourceWins ==
    Len(formatResults) >= 1 =>
      LET result == formatResults[1]
          sources == <<OfName, OfSchemaDescription, OfParameterDescription,
                       OfSchemaExample, OfParameterExample>>
          eligible == /\ Member(formatSchema, "type") = Str(<<"string">>)
                      /\ FormatOf(formatSchema) = Undefined
      IN  /\ ~eligible => result = formatSchema
          /\ (eligible /\ \A k \in 1..5 : sources[k] = None)
               => result = formatSchema
          /\ \A k \in 1..5 :
               (/\ eligible
                /\ sources[k] # None
                /\ \A j \in 1..(k - 1) : sources[j] = None)
                 => /\ FormatOf(result) = Str(<<sources[k][1]>>)
                    /\ Without(result, "format") = formatSchema

\* the name yields nothing, the schema description is a datetime range
\* (no format), the parameter description yields decimal and both examples
\* yield other formats: decimal it is
C22_Witness ==
    /\ Len(formatResults) >= 1
    /\ OfName = None
    /\ Member(formatSchema, "description")
         = Str(<<"Datetime", "range", "UUID">>)
    /\ OfParameterDescription = Some("decimal")
    /\ OfSchemaExample = Some("date")
    /\ OfParameterExample = Some("email")
    /\ FormatOf(formatResults[1]) = Str(<<"decimal">>)


\* ---- DeprecatedTransformer.transformSchema ----

\* the call has returned for a schema whose description is a string
DeprecatedDone ==
    /\ deprecatedResult # NoDeprecatedResult
    /\ TypeOf(Member(deprecatedSchema, "description")) = "string"

\* the chunks of the description of a schema, none for no description
DescriptionText(schema) ==
    IF TypeOf(Member(schema, "description")) = "string"
      THEN Member(schema, "description").text
      ELSE <<>>

\* the match of the first regular expression of the list which matches
NoticeMatch ==
    LET text == DescriptionText(deprecatedSchema)
        matches(k) == StringMatch(text, deprecationRegexps[k]) # None
    IN  IF \E k \in 1..Len(deprecationRegexps) : matches(k)
          THEN StringMatch(text, deprecationRegexps[
                 CHOOSE k \in 1..Len(deprecationRegexps) :
                   /\ matches(k)
                   /\ \A j \in 1..(k - 1) : ~matches(j)])
          ELSE None

\* the notice names no field, or the property which the schema is of
NoticeForThisSchema ==
    /\ NoticeMatch # None
    /\ \/ NoticeMatch[1].deprecated = None
       \/ NoticeMatch[1].deprecated = PropertyNameOf(deprecatedPath)

\* the notice names another field
NoticeForOtherField == NoticeMatch # None /\ ~NoticeForThisSchema

\* that field is a property of the schema or of its items schema
OtherFieldIsProperty ==
    LET name == NoticeMatch[1].deprecated[1]
        has(object) == /\ TypeOf(Member(object, "properties")) = "object"
                       /\ Member(Member(object, "properties"), name)
                            # Undefined
    IN  \/ has(deprecatedSchema)
        \/ /\ TypeOf(Member(deprecatedSchema, "items")) = "object"
           /\ has(Member(deprecatedSchema, "items"))

\* the description which is left of text after the second step, in which
\* a notice 'Use :Y, :X to be deprecated' with Y the property of the
\* schema is removed
AfterSecondStep(text) ==
    RemoveUseNotice(text, PropertyNameOf(deprecatedPath)).description

\* the schema is marked and the notice is removed exactly when the notice
\* is for this schema; a notice for another field never marks
MarkedExactlyForThisSchema ==
    LET result == deprecatedResult.schema
        text == DescriptionText(deprecatedSchema)
    IN  /\ NoticeForThisSchema
             <=> Member(result, "deprecated") = Bool(TRUE)
        /\ NoticeForThisSchema =>
             /\ Member(Member(result, "x-deprecated"), "replaced-by")
                  = IF NoticeMatch[1].replacement = None THEN Undefined
                    ELSE Str(NoticeMatch[1].replacement)
             /\ DescriptionText(result)
                  = AfterSecondStep(removeMatch(text, NoticeMatch[1]))
        /\ ~NoticeForThisSchema =>
             /\ Member(result, "deprecated") = Undefined
             /\ Member(result, "x-deprecated") = Undefined
        /\ (NoticeForOtherField /\ OtherFieldIsProperty) =>
             DescriptionText(result)
               = AfterSecondStep(removeMatch(text, NoticeMatch[1]))

\* C23 as stated: a notice for this schema marks it, gives replaced-by
\* and is removed; a notice for another field never marks, is removed
\* when that field is a property of the schema or of its items, and
\* otherwise the description is left unchanged with a warning.
C23_OtherFieldLeavesDescription ==
    DeprecatedDone =>
      /\ MarkedExactlyForThisSchema
      /\ (NoticeForOtherField /\ ~OtherFieldIsProperty) =>
           /\ deprecatedResult.schema = deprecatedSchema
           /\ \E k \in 1..Len(deprecatedResult.warnings) :
                deprecatedResult.warnings[k] = "notice"

\* C23: a notice for this schema marks it, gives replaced-by and is
\* removed; a notice for another field never marks, is removed when that
\* field is a property of the schema or of its items, and otherwise stays
\* in the description with a warning: the description is then changed by
\* the second step only, which removes a notice to use the property of
\* this schema, and without such a notice the schema is returned as it is.
C23_OtherFieldLeavesNotice ==
    DeprecatedDone =>
      /\ MarkedExactlyForThisSchema
      /\ (NoticeForOtherField /\ ~OtherFieldIsProperty) =>
           LET text == DescriptionText(deprecatedSchema)
           IN  /\ DescriptionText(deprecatedResult.schema)
                    = AfterSecondStep(text)
               /\ AfterSecondStep(text) = text
                    => deprecatedResult.schema = deprecatedSchema
               /\ \E k \in 1..Len(deprecatedResult.warnings) :
                    deprecatedResult.warnings[k] = "notice"

\* ':status to be deprecated, use :state' before other text, on the
\* property status
C23_Witness ==
    /\ DeprecatedDone
    /\ deprecatedPath = <<"properties", "status">>
    /\ DescriptionText(deprecatedSchema)
         = <<":", "status", " to be deprecated, use :", "state",
             "The current state.">>
    /\ Member(deprecatedResult.schema, "deprecated") = Bool(TRUE)
    /\ Member(Member(deprecatedResult.schema, "x-deprecated"), "replaced-by")
         = Str(<<"state">>)
    /\ DescriptionText(deprecatedResult.schema) = <<"The current state.">>
    /\ deprecatedResult.warnings = <<>>


----------------------------------------------------------------------------
(* C24: the conversion of a request body to multipart/form-data *)

MultipartDone == multipartResult.status = "returned"

\* Object.keys(content) of a request body
ContentKeys(requestBody) ==
    LET content == Member(requestBody, "content")
    IN  [k \in 1..Len(content.props) |-> content.props[k].key]

OnlyJson == ContentKeys(multipartBody) = <<"application/json">>

JsonSchema ==
    Member(Member(Member(multipartBody, "content"), "application/json"),
           "schema")

MultipartMedia ==
    Member(Member(multipartResult.value[1], "content"),
           "multipart/form-data")

\* the names of the properties of a schema
PropertyNames(schema) ==
    LET schemaProperties == Member(schema, "properties")
    IN  IF schemaProperties.kind # "object" THEN {}
        ELSE {schemaProperties.props[k].key :
                k \in 1..Len(schemaProperties.props)}

\* the paths of the properties of the schema and of their properties
PropertyPaths(schema) ==
    {<<"properties", name>> : name \in PropertyNames(schema)}
    \cup UNION {{<<"properties", name, "properties", inner>> :
                   inner \in PropertyNames(
                               GetAtPath(schema, <<"properties", name>>))} :
                  name \in PropertyNames(schema)}

\* the recognized suffixes with which the description of a schema ends
SuffixesOf(schema) ==
    LET description == Member(schema, "description")
    IN  IF description.kind # "string" THEN {}
        ELSE {k \in 1..Len(multipartDescriptionSuffixes) :
                EndsWith(description.text, multipartDescriptionSuffixes[k])}

\* the string properties of the request schema whose description ends with
\* a recognized suffix
SuffixStrings ==
    {path \in PropertyPaths(JsonSchema) :
       /\ Member(GetAtPath(JsonSchema, path), "type") = Str(<<"string">>)
       /\ SuffixesOf(GetAtPath(JsonSchema, path)) # {}}

\* the property is inside a property whose description mentions
\* multipart/form-data
InsideMentioned(path) ==
    /\ Len(path) = 4
    /\ LET description ==
             Member(GetAtPath(JsonSchema, SubSeq(path, 1, 2)), "description")
       IN  /\ description.kind = "string"
           /\ \E k \in 1..Len(description.text) :
                description.text[k] \in MultipartChunks

\* a request body with other content types is returned as it is, with a
\* warning
OtherContentSkipped ==
    MultipartDone /\ ~OnlyJson
      => /\ multipartResult.value = <<multipartBody>>
         /\ multipartResult.warnings = 1

\* the returned content has multipart/form-data only
OnlyMultipart ==
    ContentKeys(multipartResult.value[1]) = <<"multipart/form-data">>

\* every top-level property whose type is not a primitive type has the
\* encoding entry
NestedHaveEncoding ==
    \A name \in PropertyNames(JsonSchema) :
        Member(GetAtPath(JsonSchema, <<"properties", name>>), "type")
            \notin {Str(<<"boolean">>), Str(<<"integer">>), Str(<<"null">>),
                    Str(<<"number">>), Str(<<"string">>)}
          => Member(Member(MultipartMedia, "encoding"), name)
               = Obj(<<Prop("deepObject", Bool(TRUE)),
                       Prop("explode", Bool(TRUE))>>)

IsBinary(path) ==
    Member(GetAtPath(Member(MultipartMedia, "schema"), path), "format")
        = Str(<<"binary">>)

\* the description of the converted property ends with none of the
\* suffixes with which the given description ended
SuffixGone(path) ==
    SuffixesOf(GetAtPath(Member(MultipartMedia, "schema"), path))
        \cap SuffixesOf(GetAtPath(JsonSchema, path)) = {}

\* one recognized suffix has been taken from the end of the description
OneSuffixRemoved(path) ==
    LET before == Member(GetAtPath(JsonSchema, path), "description").text
        after == Member(GetAtPath(Member(MultipartMedia, "schema"), path),
                        "description")
    IN  /\ after.kind = "string"
        /\ \E k \in SuffixesOf(GetAtPath(JsonSchema, path)) :
             after.text \o multipartDescriptionSuffixes[k] = before

ArgumentKept == multipartResult.argument = multipartBody

----------------------------------------------------------------------------
(* C25, C29: the error responses of an operation and of the components *)

DeclaredOfDocument == GetAtPath(errorDocument, OperationResponses)

DeclaredCodes ==
    {DeclaredOfDocument.props[k].key :
       k \in 1..Len(DeclaredOfDocument.props)}

UbiquitousCodes == {"429", "500", "502", "503"}

ResponsesDone == errorResponsesResult.status # "none"

\* the response of componentsResponses for the code, undefined without one
CataloguedFor(code) ==
    LET names == Member(codeToResponseNames, code)
    IN  IF names = Undefined THEN Undefined
        ELSE Member(componentsResponses, names.props[1].value.text[1])

\* the value is a reference to an entry of components.responses
IsResponseRef(value) ==
    /\ value.kind = "object"
    /\ Member(value, "$ref").kind = "string"
    /\ Len(Member(value, "$ref").text) = 2
    /\ Member(value, "$ref").text[1] = "#/components/responses/"

\* the declared response is, but for the description, the response of
\* componentsResponses for its code or the generic object response
MayBeReplaced(code) ==
    LET response == Member(DeclaredOfDocument, code)
    IN  \/ /\ CataloguedFor(code) # Undefined
           /\ isResponseEqual(response, CataloguedFor(code))
        \/ isResponseEqual(response, genericObjectResponse)

\* C25: transformResponses returns for every responses map; the returned
\* map has every declared code and 429, 500, 502 and 503; for a code of
\* these four which is not declared it has the default reference; for a
\* declared code it has the declared response, or a reference in its place
\* when the response may be replaced
C25_ResponsesKeptAndInjected ==
    ResponsesDone
      => /\ errorResponsesResult.status = "returned"
         /\ LET result == errorResponsesResult.value[1]
            IN  /\ \A code \in DeclaredCodes \cup UbiquitousCodes :
                     HasOwnProperty(result, code)
                /\ \A code \in UbiquitousCodes \ DeclaredCodes :
                     Member(result, code) = Member(ubiquitousResponses, code)
                /\ \A code \in DeclaredCodes :
                     \/ Member(result, code)
                          = Member(DeclaredOfDocument, code)
                     \/ /\ IsResponseRef(Member(result, code))
                        /\ MayBeReplaced(code)

OpenApiDone == errorOpenApiResult.status # "none"

\* the references which transformResponses put into the operation
PlacedRefs ==
    LET result == GetAtPath(errorOpenApiResult.value[1], OperationResponses)
    IN  {Member(result, code) :
           code \in {c \in DeclaredCodes \cup UbiquitousCodes :
                       /\ IsResponseRef(Member(result, c))
                       /\ Member(result, c)
                            # Member(DeclaredOfDocument, c)}}

\* every placed reference names an entry of the returned components
RefsResolve ==
    OpenApiDone /\ errorOpenApiResult.status = "returned"
      => \A ref \in PlacedRefs :
           HasOwnProperty(
             GetAtPath(errorOpenApiResult.value[1],
                       <<"components", "responses">>),
             Member(ref, "$ref").text[2])

\* every name of codeToResponseNames is a key of componentsResponses
NamesInCatalogue ==
    \A k \in 1..Len(codeToResponseNames.props) :
      \A n \in 1..Len(codeToResponseNames.props[k].value.props) :
        HasOwnProperty(
          componentsResponses,
          codeToResponseNames.props[k].value.props[n].value.text[1])

\* C29: in the document returned by transformOpenApi every reference put
\* into the responses of an operation names an entry of the returned
\* components.responses, whether the document had components.responses or
\* not, and every name of the table of status codes has an entry in the
\* catalogue
C29_PlacedRefsResolve ==
    /\ RefsResolve
    /\ OpenApiDone => NamesInCatalogue


----------------------------------------------------------------------------
(* C26: the warnings of the transformer on stderr *)

\* the lines of stderr which are warnings of the transformer
WarningLines == SelectSeq(stderr, LAMBDA line : line.kind = "warning")

\* the line '<filenames[i]>:<JSON pointer>: <formatted message>' for a call
\* of warn, the pointer of the empty path being '/'
ExpectedLine(call) ==
    [kind |-> "warning", file |-> filenames[call.input],
     pointer |-> IF call.path = <<>> THEN <<"/">>
                 ELSE toJsonPointer(call.path),
     message |-> FormatFrom(call.values.format, call.values.args)]

\* the warnings emitted so far are on stderr, each as its line and in the
\* order of the calls, if verbose - quiet >= 0, and none of them is
\* otherwise
WarningsWrittenIffNotQuiet ==
    IF cliArgs.verbose - cliArgs.quiet >= 0
      THEN WarningLines = [k \in 1..Len(warnCalls) |->
                             ExpectedLine(warnCalls[k])]
      ELSE WarningLines = <<>>

\* main has returned 0 after the transforms
SuccessfulRun ==
    /\ cliPc = "exited"
    /\ cliArgs.outcome = "ok"
    /\ exitCode = Some(0)

\* a run which ends after the transforms without error has written the
\* document to stdout
DocumentOnStdout ==
    cliPc = "exited" /\ cliArgs.outcome = "ok" /\ failure = None
      => /\ exitCode = Some(0)
         /\ Len(stdout) = 1
         /\ stdout[1].kind = "document"

\* C26 as stated: the warnings of the transform of input i are written to
\* stderr as '<filenames[i]>:<JSON pointer>: <message>' if and only if
\* verbose - quiet >= 0; when the difference is negative a successful run
\* writes nothing to stderr; in both cases the exit code is 0 and the
\* document is on stdout
C26_QuietRunWritesNothing ==
    /\ WarningsWrittenIffNotQuiet
    /\ SuccessfulRun /\ cliArgs.verbose - cliArgs.quiet < 0 => stderr = <<>>
    /\ DocumentOnStdout

\* C26, amended: the same, but a successful run with a negative difference
\* writes no line other than 'Warning: No filename given. ...', which it
\* writes exactly when no file is named and stdin is a terminal
C26_QuietRunWritesNoWarningOfTheTransformer ==
    /\ WarningsWrittenIffNotQuiet
    /\ SuccessfulRun /\ cliArgs.verbose - cliArgs.quiet < 0
         => stderr = IF cliArgs.files = <<>> /\ cliArgs.isTTY
                       THEN <<[kind |-> "noFilename"]>>
                       ELSE <<>>
    /\ DocumentOnStdout

\* a successful run in which the transformer warned: one with the lines on
\* stderr, stdin among the inputs and the empty path among the paths
C26_Witness ==
    /\ SuccessfulRun
    /\ cliArgs.verbose - cliArgs.quiet >= 0
    /\ \E k \in 1..Len(warnCalls) :
         /\ warnCalls[k].path = <<>>
         /\ filenames[warnCalls[k].input] = "-"
    /\ WarningLines # <<>>


----------------------------------------------------------------------------
(* C27: the downgrade to OpenAPI 3.0.3 *)

DowngradeDone ==
    downgradeResult.status = "returned" /\ downgradeDocument.kind = "object"

GivenType ==
    Member(GetAtPath(downgradeDocument, DowngradeSchemaPath), "type")

TypeRemoved ==
    /\ GivenType # Undefined
    /\ ~HasOwnProperty(GetAtPath(downgradeResult.value[1],
                                 DowngradeSchemaPath), "type")

\* the names of a type array
TypeNames ==
    IF IsArray(GivenType)
      THEN {GivenType.props[k].value.text[1] : k \in 1..Len(GivenType.props)}
      ELSE {}

\* C27: the type of a schema is removed exactly when it is an array with
\* all the primitive scalar types and with neither 'array' nor 'object'; a
\* type array with 'array' or 'object' is never removed; the returned
\* document has openapi '3.0.3'; a document whose openapi does not start
\* with '3.1.' is returned with a warning
C27_TypeRemovedWithoutArrayAndObject ==
    DowngradeDone
      => /\ TypeRemoved
              <=> /\ {"boolean", "number", "string"} \subseteq TypeNames
                  /\ TypeNames \cap {"array", "object"} = {}
         /\ TypeNames \cap {"array", "object"} # {} => ~TypeRemoved
         /\ Member(downgradeResult.value[1], "openapi") = Str(<<"3.0.", "3">>)
         /\ Member(downgradeDocument, "openapi")
              \notin {Str(<<"3.1.", "0">>)}
              => downgradeResult.warnings >= 1


\* ---- transformBodyParams: the stack of schemas ----

\* the last entry was processed without an error
BodyEntryDone == bodyParams # <<>> /\ bodyResult.status # "threw"

\* the depth of the entry at index i (from 1) of params
DepthOf(i) == bodyParams[i].indentation \div indentIncrement

\* the schema child is the items or a property of the schema parent
AttachedTo(child, parent) ==
    \/ schemas[parent].items = Some(child)
    \/ \E q \in schemas[parent].properties : q[2] = child

\* the schema child is a property of the object which is the items of the
\* array parent
AttachedToItemsOf(child, parent) ==
    /\ schemas[parent].type = "array"
    /\ schemas[parent].items # None
    /\ schemas[schemas[parent].items[1]].type = "object"
    /\ \E q \in schemas[schemas[parent].items[1]].properties : q[2] = child

\* the stack has depth + 1 elements, the first is the root object schema
\* and the last is the schema made for the last entry
StackShape ==
    /\ Len(schemaForDepth) = DepthOf(Len(bodyParams)) + 1
    /\ schemaForDepth[1] = 1
    /\ schemas[1].type = "object"
    /\ entrySchemas[Len(bodyParams)] = Some(schemaForDepth[Len(schemaForDepth)])

\* the entry at index j is the most recent entry of depth d before the last
\* entry, and no entry of depth d or less follows it
RecentEntry(j, d) ==
    /\ j \in 1..(Len(bodyParams) - 1)
    /\ DepthOf(j) = d
    /\ \A i \in (j + 1)..(Len(bodyParams) - 1) : DepthOf(i) > d

\* the schema under which the last entry is: the one below it on the stack
ParentOnStack == schemaForDepth[Len(schemaForDepth) - 1]

\* the parent of the last entry is the root (depth 1) or the schema of the
\* most recent entry of the depth above
ParentIsRecentEntry ==
    LET d == DepthOf(Len(bodyParams))
    IN  IF d = 1 THEN ParentOnStack = 1
        ELSE \E j \in 1..(Len(bodyParams) - 1) :
               /\ RecentEntry(j, d - 1)
               /\ entrySchemas[j] = Some(ParentOnStack)

\* the parent of the last entry is no schema of an entry: it is the
\* { type: 'array' } made for a missing level, the items of the array
\* below it on the stack, and no entry of the depth above is on the stack
ParentIsImplicitArray ==
    LET d == DepthOf(Len(bodyParams))
    IN  /\ d > 2
        /\ \A j \in 1..Len(entrySchemas) :
             entrySchemas[j] # Some(ParentOnStack)
        /\ schemas[ParentOnStack].type = "array"
        /\ schemas[schemaForDepth[d - 1]].type = "array"
        /\ schemas[schemaForDepth[d - 1]].items = Some(ParentOnStack)
        /\ \A j \in 1..(Len(bodyParams) - 1) : ~RecentEntry(j, d - 1)
        /\ \E j \in 1..(Len(bodyParams) - 1) :
             /\ RecentEntry(j, d - 2)
             /\ entrySchemas[j] = Some(schemaForDepth[d - 1])

\* C28: after each successfully processed entry at depth d the stack has
\* exactly d + 1 elements, index 0 is the root object schema, index d is
\* the schema just created, each index k in 1..d holds a schema which is
\* the items or a property of the schema at index k - 1, and the entry is
\* attached to the schema of the most recent preceding entry of depth
\* d - 1 (the root for d = 1), which no sibling or shallower entry follows.
C28_StackOfDirectParents ==
    BodyEntryDone =>
      /\ StackShape
      /\ \A k \in 2..Len(schemaForDepth) :
           AttachedTo(schemaForDepth[k], schemaForDepth[k - 1])
      /\ ParentIsRecentEntry

\* C28, as the code has it: the shape of the stack is as said; each index
\* k in 1..d holds a schema which is the items of, a property of, or a
\* property of the object items of the schema at index k - 1; and the
\* parent of the entry is the schema of the most recent preceding entry of
\* depth d - 1 (the root for d = 1) which no shallower entry follows, or,
\* when there is none, the array schema made for the missing level as the
\* items of the most recent entry of depth d - 2.
C28_StackOfParentsOrTheirItems ==
    BodyEntryDone =>
      /\ StackShape
      /\ \A k \in 2..Len(schemaForDepth) :
           \/ AttachedTo(schemaForDepth[k], schemaForDepth[k - 1])
           \/ AttachedToItemsOf(schemaForDepth[k], schemaForDepth[k - 1])
      /\ ParentIsRecentEntry # ParentIsImplicitArray

\* an array at depth 1, an object at depth 2 and then a string at depth 2:
\* the string replaced the object on the stack and is a property of the
\* object made the items of the array
C28_Witness ==
    /\ Len(bodyParams) = 3
    /\ bodyParams[1] = [indentation |-> 2, name |-> Some("a"),
                        type |-> "array"]
    /\ bodyParams[2] = [indentation |-> 4, name |-> Some("a"),
                        type |-> "object"]
    /\ bodyParams[3] = [indentation |-> 4, name |-> Some("b"),
                        type |-> "string"]
    /\ bodyResult.status = "running"
    /\ schemaForDepth = <<1, 2, 5>>
    /\ entrySchemas = <<Some(2), Some(3), Some(5)>>
    /\ schemas[2].items = Some(4)
    /\ schemas[4].properties = {<<"a", 3>>, <<"b", 5>>}


\* ---- transformParams: the previous schema ----

\* the schema made for the element at index i (from 1) of path_params
PathSchema(i) == i

\* the schema made for the element at index i (from 1) of query_params:
\* the query call starts once every path element has its schema
QuerySchema(i) == Len(pathParams) + i

\* the elements of the call in progress, and the schema of each
CurrentParams == ParamsOf(paramsIn)

CurrentSchema(i) == IF paramsIn = "path" THEN PathSchema(i) ELSE QuerySchema(i)

\* between two iterations prevSchema is undefined before the first element
\* and afterwards the schema made for the last element, which has no items
PrevSchemaIsFresh ==
    (paramsResult.status = "running" /\ paramsIn \in {"path", "query"}) =>
      IF CurrentParams = <<>> THEN prevSchema = None
      ELSE /\ prevSchema = Some(CurrentSchema(Len(CurrentParams)))
           /\ prevSchema[1] = Len(paramSchemas)
           /\ paramSchemas[prevSchema[1]].items = None
           /\ paramSchemas[prevSchema[1]].type
                = CurrentParams[Len(CurrentParams)].type

\* in params every element of type array which is followed by an element
\* of type array holds the schema of that element as its items
ArraysNest(params, SchemaOf(_)) ==
    \A i \in 1..(Len(params) - 1) :
      (/\ params[i].type = "array"
       /\ params[i + 1].type = "array"
       /\ SchemaOf(i + 1) \in DOMAIN paramSchemas) =>
        /\ paramSchemas[SchemaOf(i)].items = Some(SchemaOf(i + 1))
        /\ paramSchemas[SchemaOf(i + 1)].type = "array"

\* transformParams threw for an element of type object, and only for it
ThrewForObject ==
    paramsResult.error = Some("typeObject") <=>
      \/ pathParams # <<>> /\ pathParams[Len(pathParams)].type = "object"
      \/ queryParams # <<>> /\ queryParams[Len(queryParams)].type = "object"

\* C30: in transformParams the error '<name> conflicts with existing array
\* item schema' never happens: when an element is examined, prevSchema is
\* the schema built for the element directly before it and has no items;
\* consecutive elements of type array nest, each the items of the one
\* before; and the only error transformParams itself raises is the one
\* for an element of type object (the other errors are those thrown by
\* transformParam).
C30_ConflictUnreachable ==
    /\ paramsResult.error # Some("conflictsWithItems")
    /\ PrevSchemaIsFresh
    /\ ArraysNest(pathParams, PathSchema)
    /\ ArraysNest(queryParams, QuerySchema)
    /\ paramsResult.error \in {None, Some("typeObject"),
                               Some("transformParam")}
    /\ ThrewForObject

\* query elements array, array, integer after one path element: the second
\* array is the items of the first, the integer the items of the second,
\* and the loop goes on
C30_Witness ==
    /\ paramsResult.status = "running"
    /\ paramsIn = "query"
    /\ Len(pathParams) = 1
    /\ pathParams[1].type = "integer"
    /\ Len(queryParams) = 3
    /\ queryParams[1].type = "array"
    /\ queryParams[2].type = "array"
    /\ queryParams[3].type = "integer"
    /\ paramSchemas[2] = [type |-> "array", items |-> Some(3)]
    /\ paramSchemas[3] = [type |-> "array", items |-> Some(4)]
    /\ paramSchemas[4] = [type |-> "integer", items |-> None]
    /\ prevSchema = Some(4)
    /\ Len(oasParams) = 1

============================================================================
